---- MODULE Spec2Model ----
(***************************************************************************)
(* Verification model of the inference-performance-estimator:              *)
(*   - the roofline engine of src/src/utils/calculations.ts (strict        *)
(*     variant: missing architecture fields are errors),                   *)
(*   - its caller AIModelCalculator (src/unnamed/part_002),                *)
(*   - the stack recommendation of src/src/utils/stackRecommendation.ts.   *)
(*                                                                         *)
(* JavaScript numbers are modelled as exact values of the form             *)
(*      (n / d) * 2^p2 * 5^p5          (n, d coprime, both coprime to 10)  *)
(* together with the IEEE-754 specials NaN, +Infinity, -Infinity and the   *)
(* JavaScript value undefined.  The form keeps 1e9 and 1e12 inside TLC's   *)
(* integers.  Rounding of doubles and the sign of zero are not modelled.   *)
(***************************************************************************)
EXTENDS Integers, Sequences, FiniteSets, TLC

\* ------------------------------------------------------------------------
\* JavaScript numbers
\* ------------------------------------------------------------------------

Abs(i) == IF i < 0 THEN -i ELSE i

MinInt(i, j) == IF i < j THEN i ELSE j

RECURSIVE GCD(_, _)
GCD(a, b) == IF b = 0 THEN a ELSE GCD(b, a % b)

RECURSIVE IPow(_, _)
IPow(b, e) == IF e <= 0 THEN 1 ELSE b * IPow(b, e - 1)

\* number of times the prime p divides i (i # 0)
RECURSIVE Val(_, _)
Val(p, i) == IF i % p = 0 THEN 1 + Val(p, i \div p) ELSE 0

Special(kind, sign) == [k |-> kind, n |-> sign, d |-> 1, p2 |-> 0, p5 |-> 0]

Undefined == Special("undef", 0)

NaN == Special("nan", 0)

PosInf == Special("inf", 1)

NegInf == Special("inf", -1)

Zero == [k |-> "fin", n |-> 0, d |-> 1, p2 |-> 0, p5 |-> 0]

\* n / d in lowest terms (a1 / b1, sign s) with the powers of 2 and 5 moved
\* into the exponents
Stripped(s, a1, b1, a2, a5, b2, b5, e2, e5) ==
  [k  |-> "fin",
   n  |-> s * (a1 \div (IPow(2, a2) * IPow(5, a5))),
   d  |-> b1 \div (IPow(2, b2) * IPow(5, b5)),
   p2 |-> e2 + a2 - b2,
   p5 |-> e5 + a5 - b5]

Reduced(s, a1, b1, e2, e5) ==
  Stripped(s, a1, b1, Val(2, a1), Val(5, a1), Val(2, b1), Val(5, b1), e2, e5)

\* canonical form of (n / d) * 2^e2 * 5^e5, d # 0
Norm(n, d, e2, e5) ==
  IF n = 0 THEN Zero
  ELSE Reduced(IF (n < 0) # (d < 0) THEN -1 ELSE 1,
               Abs(n) \div GCD(Abs(n), Abs(d)),
               Abs(d) \div GCD(Abs(n), Abs(d)),
               e2, e5)

Num(i) == Norm(i, 1, 0, 0)

Rat(n, d) == Norm(n, d, 0, 0)

\* the literal 1eE
Pow10(e) == Norm(1, 1, e, e)

IsNaN(x) == x.k \in {"nan", "undef"}

IsFinite(x) == x.k = "fin"

IsZero(x) == x.k = "fin" /\ x.n = 0

Sign(x) == IF x.n > 0 THEN 1 ELSE IF x.n < 0 THEN -1 ELSE 0

\* JavaScript truthiness of a number-or-undefined: !x holds for undefined, NaN, 0
Truthy(x) == ~IsNaN(x) /\ ~IsZero(x)

Neg(x) == IF x.k \in {"fin", "inf"} THEN [x EXCEPT !.n = -x.n] ELSE NaN

MulFinite(x, y, g1, g2) ==
  Norm((x.n \div g1) * (y.n \div g2), (x.d \div g2) * (y.d \div g1),
       x.p2 + y.p2, x.p5 + y.p5)

Mul(x, y) ==
  IF IsNaN(x) \/ IsNaN(y) THEN NaN
  ELSE IF x.k = "inf" \/ y.k = "inf"
       THEN IF IsZero(x) \/ IsZero(y) THEN NaN
            ELSE Special("inf", Sign(x) * Sign(y))
  ELSE IF x.n = 0 \/ y.n = 0 THEN Zero
  ELSE MulFinite(x, y, GCD(Abs(x.n), y.d), GCD(Abs(y.n), x.d))

Div(x, y) ==
  IF IsNaN(x) \/ IsNaN(y) THEN NaN
  ELSE IF x.k = "inf"
       THEN IF y.k = "inf" THEN NaN
            ELSE Special("inf", Sign(x) * (IF Sign(y) < 0 THEN -1 ELSE 1))
  ELSE IF y.k = "inf" THEN Zero
  ELSE IF IsZero(y)
       THEN IF IsZero(x) THEN NaN ELSE Special("inf", Sign(x))
  ELSE Mul(x, [k |-> "fin", n |-> Sign(y) * y.d, d |-> Abs(y.n),
               p2 |-> -y.p2, p5 |-> -y.p5])

AddScaled(xn, yn, xd, yd, g, e2, e5) ==
  Norm(xn * (yd \div g) + yn * (xd \div g), (xd \div g) * yd, e2, e5)

\* both numerators brought to the common exponents e2, e5
AddAligned(x, y, e2, e5) ==
  AddScaled(x.n * IPow(2, x.p2 - e2) * IPow(5, x.p5 - e5),
            y.n * IPow(2, y.p2 - e2) * IPow(5, y.p5 - e5),
            x.d, y.d, GCD(x.d, y.d), e2, e5)

Add(x, y) ==
  IF IsNaN(x) \/ IsNaN(y) THEN NaN
  ELSE IF x.k = "inf"
       THEN IF y.k = "inf" /\ y.n # x.n THEN NaN ELSE x
  ELSE IF y.k = "inf" THEN y
  ELSE IF IsZero(x) THEN y
  ELSE IF IsZero(y) THEN x
  ELSE AddAligned(x, y, MinInt(x.p2, y.p2), MinInt(x.p5, y.p5))

Sub(x, y) == Add(x, Neg(y))

\* x < y, false when either side is NaN
Lt(x, y) ==
  IF IsNaN(x) \/ IsNaN(y) THEN FALSE
  ELSE IF x.k = "inf" THEN x.n < 0 /\ ~(y.k = "inf" /\ y.n < 0)
  ELSE IF y.k = "inf" THEN y.n > 0
  ELSE Sign(Sub(x, y)) < 0

Gt(x, y) == Lt(y, x)

\* x >= y, false when either side is NaN
Ge(x, y) == ~IsNaN(x) /\ ~IsNaN(y) /\ ~Lt(x, y)

Le(x, y) == Ge(y, x)

\* Math.max / Math.min: NaN when an argument is NaN
MathMax(x, y) == IF IsNaN(x) \/ IsNaN(y) THEN NaN ELSE IF Lt(x, y) THEN y ELSE x

MathMin(x, y) == IF IsNaN(x) \/ IsNaN(y) THEN NaN ELSE IF Lt(y, x) THEN y ELSE x

\* Math.floor
MathFloor(x) ==
  IF IsNaN(x) THEN NaN
  ELSE IF x.k = "inf" THEN x
  ELSE Num((x.n * IPow(2, x.p2) * IPow(5, x.p5))
           \div (x.d * IPow(2, -x.p2) * IPow(5, -x.p5)))

\* a || b on numbers
OrElse(a, b) == IF Truthy(a) THEN a ELSE b

\* a ?? b on numbers
Coalesce(a, b) == IF a.k = "undef" THEN b ELSE a

\* Number.prototype.toFixed(1): the value rounded to one decimal (half away from zero)
ToFixed1(x) ==
  IF x.k # "fin" THEN x
  ELSE IF Sign(x) < 0
       THEN Neg(Div(MathFloor(Add(Mul(Neg(x), Num(10)), Rat(1, 2))), Num(10)))
       ELSE Div(MathFloor(Add(Mul(x, Num(10)), Rat(1, 2))), Num(10))

\* ------------------------------------------------------------------------
\* Results of calls that may throw
\* ------------------------------------------------------------------------

NoValue == [none |-> TRUE]

Ret(v) == [threw |-> FALSE, value |-> v, message |-> ""]

Throw(msg) == [threw |-> TRUE, value |-> NoValue, message |-> msg]

\* an optional string that is undefined
NoMessage == << >>

\* object spread {...a, ...b}
Spread(a, b) ==
  [f \in DOMAIN a \cup DOMAIN b |-> IF f \in DOMAIN b THEN b[f] ELSE a[f]]

\* ------------------------------------------------------------------------
\* types/calculator.ts
\* ------------------------------------------------------------------------

QUANTIZATION_OPTIONS ==
  << [name |-> "FP32", bytesPerParameter |-> Num(4), computeMultiplier |-> Rat(1, 2)],
     [name |-> "FP16", bytesPerParameter |-> Num(2), computeMultiplier |-> Num(1)],
     [name |-> "INT8", bytesPerParameter |-> Num(1), computeMultiplier |-> Num(2)],
     [name |-> "INT4", bytesPerParameter |-> Rat(1, 2), computeMultiplier |-> Num(4)] >>

DEFAULT_SYSTEM_OVERHEAD == [systemEfficiencyPercent |-> Num(80)]

\* types/stackFinder.ts
DEFAULT_PROJECT_REQUIREMENTS ==
  [projectType            |-> "prototype",
   useCase                |-> <<"natural-language-processing">>,
   programmingLanguages   |-> <<"python">>,
   scalabilityNeeds       |-> "single-machine",
   deploymentTarget       |-> <<"cloud">>,
   budgetRange            |-> "small",
   teamSize               |-> "small-team",
   timelineWeeks          |-> Num(12),
   latencyRequirement     |-> "flexible",
   throughputRequirement  |-> "medium",
   dataSize               |-> "medium",
   dataTypes              |-> <<"text">>,
   complianceRequirements |-> <<"none">>,
   securityLevel          |-> "standard"]

\* ------------------------------------------------------------------------
\* utils/calculations.ts (strict engine)
\* ------------------------------------------------------------------------

getQuantizationInfo(quantization) ==
  IF \E i \in DOMAIN QUANTIZATION_OPTIONS : QUANTIZATION_OPTIONS[i].name = quantization
  THEN QUANTIZATION_OPTIONS[CHOOSE i \in DOMAIN QUANTIZATION_OPTIONS :
         /\ QUANTIZATION_OPTIONS[i].name = quantization
         /\ \A j \in DOMAIN QUANTIZATION_OPTIONS :
              QUANTIZATION_OPTIONS[j].name = quantization => i <= j]
  ELSE QUANTIZATION_OPTIONS[2]

calculateModelSizeBytes(model) ==
  Mul(Mul(model.parameters, Pow10(9)),
      getQuantizationInfo(model.quantization).bytesPerParameter)

\* gpu.computeBandwidth * 1e12 * quantInfo.computeMultiplier
effectiveComputeFlops(gpu, model) ==
  Mul(Mul(gpu.computeBandwidth, Pow10(12)),
      getQuantizationInfo(model.quantization).computeMultiplier)

\* gpu.memoryBandwidth * 1e9
memoryBytesPerSecond(gpu) == Mul(gpu.memoryBandwidth, Pow10(9))

calculateOpsToByteRatio(gpu, model) ==
  Div(effectiveComputeFlops(gpu, model), memoryBytesPerSecond(gpu))

\* (8 * N * N + 8 * N * d) * quantInfo.bytesPerParameter / 2
totalMemoryMovement(N, d, quantInfo) ==
  Div(Mul(Add(Mul(Mul(Num(8), N), N), Mul(Mul(Num(8), N), d)),
          quantInfo.bytesPerParameter),
      Num(2))

\* variant: the 3 * N * N term left out
totalComputeWithoutSoftmax(N, d) == Mul(Mul(Mul(Num(4), N), N), d)

\* 4 * N * N * d + 3 * N * N
totalCompute(N, d) ==
  Add(Mul(Mul(Mul(Num(4), N), N), d), Mul(Mul(Num(3), N), N))

calculateArithmeticIntensity(model) ==
  IF ~Truthy(model.headDimension)
  THEN Throw("Model architecture missing: headDimension is required for arithmetic intensity calculation")
  ELSE Ret(MathMax(Rat(1, 10),
                   Mul(Div(totalCompute(model.sequenceLength, model.headDimension),
                           totalMemoryMovement(model.sequenceLength, model.headDimension,
                                               getQuantizationInfo(model.quantization))),
                       model.batchSize)))

\* systemOverhead?.systemEfficiencyPercent ?? 100, as a multiplier
systemEfficiencyOf(systemOverhead) ==
  Div(Coalesce(IF "systemEfficiencyPercent" \in DOMAIN systemOverhead
               THEN systemOverhead.systemEfficiencyPercent
               ELSE Undefined,
               Num(100)),
      Num(100))

\* model.promptTokens * (model.parameters * 1e9) * 2
totalFlops(model) ==
  Mul(Mul(model.promptTokens, Mul(model.parameters, Pow10(9))), Num(2))

\* variant: the base time multiplied by the efficiency instead of divided by it
calculatePrefillTimeScaled(gpu, model, systemOverhead) ==
  Mul(Mul(Div(totalFlops(model), effectiveComputeFlops(gpu, model)), Num(1000)),
      systemEfficiencyOf(systemOverhead))

calculatePrefillTime(gpu, model, systemOverhead) ==
  Div(Mul(Div(totalFlops(model), effectiveComputeFlops(gpu, model)), Num(1000)),
      systemEfficiencyOf(systemOverhead))

calculateTimePerToken(gpu, model, systemOverhead) ==
  Div(Mul(Div(calculateModelSizeBytes(model), memoryBytesPerSecond(gpu)), Num(1000)),
      systemEfficiencyOf(systemOverhead))

calculateTotalGenerationTime(prefillTime, timePerToken, outputTokens) ==
  Add(prefillTime, Mul(timePerToken, outputTokens))

\* variant: no guard on totalTime === 0
calculateThroughputUnguarded(totalTime, totalTokens) ==
  Mul(Div(totalTokens, totalTime), Num(1000))

calculateThroughput(totalTime, totalTokens) ==
  IF IsZero(totalTime) THEN Zero
  ELSE Mul(Div(totalTokens, totalTime), Num(1000))

\* variant: the boundary case counted as memory-bound
determineBottleneckInclusive(opsToByteRatio, arithmeticIntensity) ==
  [isMemoryBound  |-> Le(arithmeticIntensity, opsToByteRatio),
   isComputeBound |-> Gt(arithmeticIntensity, opsToByteRatio)]

determineBottleneck(opsToByteRatio, arithmeticIntensity) ==
  [isMemoryBound  |-> Lt(arithmeticIntensity, opsToByteRatio),
   isComputeBound |-> Ge(arithmeticIntensity, opsToByteRatio)]

\* 2 * nLayers * nKvHeads * dHead * quantInfo.bytesPerParameter
kvCacheBytesPerToken(nLayers, nKvHeads, dHead, quantInfo) ==
  Mul(Mul(Mul(Mul(Num(2), nLayers), nKvHeads), dHead), quantInfo.bytesPerParameter)

calculateKVCachePerToken(model) ==
  IF ~Truthy(model.nLayers)
  THEN Throw("Model architecture missing: nLayers is required for KV cache calculation")
  ELSE IF ~Truthy(model.headDimension)
  THEN Throw("Model architecture missing: headDimension is required for KV cache calculation")
  ELSE IF ~Truthy(model.nKvHeads) /\ ~Truthy(model.nHeads)
  THEN Throw("Model architecture missing: nKvHeads or nHeads is required for KV cache calculation")
  ELSE Ret(Div(kvCacheBytesPerToken(model.nLayers,
                                    OrElse(model.nKvHeads, model.nHeads),
                                    model.headDimension,
                                    getQuantizationInfo(model.quantization)),
               Pow10(9)))

\* maxNumSequences * sequenceLength * (18 * hiddenSize + 4 * intermediateSize)
activationMemoryBytes(maxNumSequences, sequenceLength, hiddenSize, intermediateSize) ==
  Mul(Mul(maxNumSequences, sequenceLength),
      Add(Mul(Num(18), hiddenSize), Mul(Num(4), intermediateSize)))

calculateActivationMemory(model) ==
  IF ~Truthy(model.hiddenSize)
  THEN Throw("Model architecture missing: hiddenSize is required for activation memory calculation")
  ELSE IF ~Truthy(model.intermediateSize)
  THEN Throw("Model architecture missing: intermediateSize is required for activation memory calculation")
  ELSE Ret(Div(activationMemoryBytes(model.batchSize,
                                     Add(model.promptTokens, model.outputTokens),
                                     model.hiddenSize, model.intermediateSize),
               Pow10(9)))

calculateSystemOverhead == Num(1)

\* checkMemoryFit is written as a chain of stages, each taking the locals computed
\* so far as a record, so that every local of the source is computed once.

\* variant: the current KV cache sized by the context length
memoryComponentsContextLength(gpu, model, activation, kvCache) ==
  [modelSizeGB |-> Div(calculateModelSizeBytes(model), Pow10(9)),
   gpuMemoryGB |-> gpu.memorySize,
   systemOverheadGB |-> calculateSystemOverhead,
   activationMemoryGB |-> activation.value,
   kvCachePerTokenGB |-> kvCache.value,
   currentKVCacheGB |-> Mul(Mul(kvCache.value, model.sequenceLength), model.batchSize),
   actualSequenceLength |-> Add(model.promptTokens, model.outputTokens)]

\* lines 226-234: the memory components
memoryComponents(gpu, model, activation, kvCache) ==
  [modelSizeGB |-> Div(calculateModelSizeBytes(model), Pow10(9)),
   gpuMemoryGB |-> gpu.memorySize,
   systemOverheadGB |-> calculateSystemOverhead,
   activationMemoryGB |-> activation.value,
   kvCachePerTokenGB |-> kvCache.value,
   currentKVCacheGB |->
     Mul(Mul(kvCache.value, Add(model.promptTokens, model.outputTokens)), model.batchSize),
   actualSequenceLength |-> Add(model.promptTokens, model.outputTokens)]

\* variant: the total without the fixed system overhead
memoryTotalsWithoutOverhead(c) ==
  Spread(c,
    [totalMemoryNeeded |->
       Add(Add(c.modelSizeGB, c.activationMemoryGB), c.currentKVCacheGB),
     freeMemoryForKVCacheGB |->
       MathMax(Zero,
               Sub(c.gpuMemoryGB,
                   Add(Add(c.modelSizeGB, c.systemOverheadGB), c.activationMemoryGB)))])

\* lines 236-241: total memory needed and the memory left for the KV cache
memoryTotals(c) ==
  Spread(c,
    [totalMemoryNeeded |->
       Add(Add(Add(c.modelSizeGB, c.systemOverheadGB), c.activationMemoryGB),
           c.currentKVCacheGB),
     freeMemoryForKVCacheGB |->
       MathMax(Zero,
               Sub(c.gpuMemoryGB,
                   Add(Add(c.modelSizeGB, c.systemOverheadGB), c.activationMemoryGB)))])

\* line 244
memoryTokens(t) ==
  Spread(t,
    [maxKVCacheTokens |->
       IF Gt(t.kvCachePerTokenGB, Zero)
       THEN MathFloor(Div(t.freeMemoryForKVCacheGB, t.kvCachePerTokenGB))
       ELSE Zero])

\* variant: maxBatchSize without the guard on actualSequenceLength > 0
memoryBatchUnguarded(t) ==
  Spread(t,
    [maxBatchSize |-> MathFloor(Div(t.maxKVCacheTokens, t.actualSequenceLength)),
     memoryUtilization |-> Mul(Div(t.totalMemoryNeeded, t.gpuMemoryGB), Num(100))])

\* lines 247-250
memoryBatch(t) ==
  Spread(t,
    [maxBatchSize |->
       IF Gt(t.actualSequenceLength, Zero)
       THEN MathFloor(Div(t.maxKVCacheTokens, t.actualSequenceLength))
       ELSE Zero,
     memoryUtilization |-> Mul(Div(t.totalMemoryNeeded, t.gpuMemoryGB), Num(100))])

\* variant: the utilization thresholds tested before the overflow
memoryWarningUtilizationFirst(u) ==
  IF Gt(u.memoryUtilization, Num(90))
  THEN [hasMemoryWarning |-> TRUE,
        memoryWarningMessage |->
          << "High memory usage (", ToFixed1(u.memoryUtilization),
             "%). May cause performance issues or OOM errors. Consider reducing batch size or sequence length." >>]
  ELSE IF Gt(u.memoryUtilization, Num(80))
  THEN [hasMemoryWarning |-> TRUE,
        memoryWarningMessage |->
          << "Moderate memory usage (", ToFixed1(u.memoryUtilization),
             "%). Monitor for potential memory pressure." >>]
  ELSE IF Gt(u.totalMemoryNeeded, u.gpuMemoryGB)
  THEN [hasMemoryWarning |-> TRUE,
        memoryWarningMessage |->
          << "Model requires ", ToFixed1(u.totalMemoryNeeded),
             "GB but GPU only has ", u.gpuMemoryGB,
             "GB. Shortfall: ", ToFixed1(Sub(u.totalMemoryNeeded, u.gpuMemoryGB)),
             "GB. Consider using a smaller model, better quantization, or a GPU with more memory." >>]
  ELSE [hasMemoryWarning |-> FALSE, memoryWarningMessage |-> NoMessage]

\* lines 252-265
memoryWarning(u) ==
  IF Gt(u.totalMemoryNeeded, u.gpuMemoryGB)
  THEN [hasMemoryWarning |-> TRUE,
        memoryWarningMessage |->
          << "Model requires ", ToFixed1(u.totalMemoryNeeded),
             "GB but GPU only has ", u.gpuMemoryGB,
             "GB. Shortfall: ", ToFixed1(Sub(u.totalMemoryNeeded, u.gpuMemoryGB)),
             "GB. Consider using a smaller model, better quantization, or a GPU with more memory." >>]
  ELSE IF Gt(u.memoryUtilization, Num(90))
  THEN [hasMemoryWarning |-> TRUE,
        memoryWarningMessage |->
          << "High memory usage (", ToFixed1(u.memoryUtilization),
             "%). May cause performance issues or OOM errors. Consider reducing batch size or sequence length." >>]
  ELSE IF Gt(u.memoryUtilization, Num(80))
  THEN [hasMemoryWarning |-> TRUE,
        memoryWarningMessage |->
          << "Moderate memory usage (", ToFixed1(u.memoryUtilization),
             "%). Monitor for potential memory pressure." >>]
  ELSE [hasMemoryWarning |-> FALSE, memoryWarningMessage |-> NoMessage]

\* variant: the utilization returned as computed
displayedUtilizationUncapped(memoryUtilization) == memoryUtilization

\* line 271
displayedUtilization(memoryUtilization) == MathMin(memoryUtilization, Num(999))

\* lines 267-280
memoryFitResult(u, warning) ==
  [modelSizeGB |-> u.modelSizeGB,
   systemOverheadGB |-> u.systemOverheadGB,
   activationMemoryGB |-> u.activationMemoryGB,
   memoryUtilization |-> displayedUtilization(u.memoryUtilization),
   hasMemoryWarning |-> warning.hasMemoryWarning,
   memoryWarningMessage |-> warning.memoryWarningMessage,
   kvCachePerTokenGB |-> u.kvCachePerTokenGB,
   freeMemoryForKVCacheGB |-> u.freeMemoryForKVCacheGB,
   maxKVCacheTokens |-> u.maxKVCacheTokens,
   maxBatchSize |-> u.maxBatchSize,
   totalMemoryUsedGB |-> u.totalMemoryNeeded,
   currentKVCacheGB |-> u.currentKVCacheGB]

memoryFitReturn(u) == Ret(memoryFitResult(u, memoryWarning(u)))

\* variant: the KV cache computed before the activation memory
memoryFitFromKVCacheFirst(gpu, model, activation, kvCache) ==
  IF kvCache.threw THEN kvCache
  ELSE IF activation.threw THEN activation
  ELSE memoryFitReturn(
         memoryBatch(memoryTokens(memoryTotals(
           memoryComponents(gpu, model, activation, kvCache)))))

\* lines 232-233 throw before anything else is computed
memoryFitFrom(gpu, model, activation, kvCache) ==
  IF activation.threw THEN activation
  ELSE IF kvCache.threw THEN kvCache
  ELSE memoryFitReturn(
         memoryBatch(memoryTokens(memoryTotals(
           memoryComponents(gpu, model, activation, kvCache)))))

checkMemoryFit(gpu, model) ==
  memoryFitFrom(gpu, model, calculateActivationMemory(model),
                calculateKVCachePerToken(model))

\* variant: a throughput of 0 is not reported
checkPerformanceWarningIgnoringZero(throughput) ==
  IF Lt(throughput, Num(5)) /\ ~IsZero(throughput)
  THEN [hasPerformanceWarning |-> TRUE,
        performanceWarningMessage |->
          << "Very low throughput (", ToFixed1(throughput),
             " token/s). Consider using a more powerful GPU, smaller model, better quantization, or optimizing your setup for better performance." >>]
  ELSE [hasPerformanceWarning |-> FALSE, performanceWarningMessage |-> NoMessage]

checkPerformanceWarning(throughput) ==
  IF Lt(throughput, Num(5))
  THEN [hasPerformanceWarning |-> TRUE,
        performanceWarningMessage |->
          << "Very low throughput (", ToFixed1(throughput),
             " token/s). Consider using a more powerful GPU, smaller model, better quantization, or optimizing your setup for better performance." >>]
  ELSE [hasPerformanceWarning |-> FALSE, performanceWarningMessage |-> NoMessage]

\* calculatePerformance, lines 314-320: the latencies
performanceTimes(gpu, model, systemOverhead, prefillTime, timePerToken) ==
  [prefillTime |-> prefillTime,
   timePerToken |-> timePerToken,
   totalGenerationTime |->
     calculateTotalGenerationTime(prefillTime, timePerToken, model.outputTokens),
   totalTokens |-> Add(model.promptTokens, model.outputTokens)]

\* lines 322-323
performanceThroughput(t) ==
  Spread(t, [throughputTokensPerSecond |->
               calculateThroughput(t.totalGenerationTime, t.totalTokens)])

\* lines 326-336: the returned object
performanceResult(opsToByteRatio, arithmeticIntensity, t, memoryCheck) ==
  Spread(Spread(Spread(
    [opsToByteRatio |-> opsToByteRatio,
     arithmeticIntensity |-> arithmeticIntensity,
     prefillTime |-> t.prefillTime,
     timePerToken |-> t.timePerToken,
     totalGenerationTime |-> t.totalGenerationTime,
     throughputTokensPerSecond |-> t.throughputTokensPerSecond],
    determineBottleneck(opsToByteRatio, arithmeticIntensity)),
    memoryCheck),
    checkPerformanceWarning(t.throughputTokensPerSecond))

\* lines 308-341: try { ... } catch { throw new Error(`Performance calculation failed: ...`) }
performanceFrom(gpu, model, systemOverhead, opsToByteRatio, intensity, memoryCheck) ==
  IF intensity.threw
  THEN Throw("Performance calculation failed: " \o intensity.message)
  ELSE IF memoryCheck.threw
  THEN Throw("Performance calculation failed: " \o memoryCheck.message)
  ELSE Ret(performanceResult(
             opsToByteRatio, intensity.value,
             performanceThroughput(
               performanceTimes(gpu, model, systemOverhead,
                                calculatePrefillTime(gpu, model, systemOverhead),
                                calculateTimePerToken(gpu, model, systemOverhead))),
             memoryCheck.value))

calculatePerformance(gpu, model, systemOverhead) ==
  performanceFrom(gpu, model, systemOverhead, calculateOpsToByteRatio(gpu, model),
                  calculateArithmeticIntensity(model), checkMemoryFit(gpu, model))

\* ------------------------------------------------------------------------
\* State
\* ------------------------------------------------------------------------

VARIABLES
  args,              \* engine call: the arguments drawn for it
  call,              \* engine call: the function applied ("none" before the call)
  ret,               \* engine call: what the call returned or threw
  gpus,              \* AIModelCalculator: useGPUs().gpus
  selectedGPU,       \* AIModelCalculator: useState<GPUSpecs | null>
  modelSpecs,        \* AIModelCalculator: useState<ModelSpecs | null>
  systemOverhead,    \* AIModelCalculator: useState<SystemOverhead>
  results,           \* AIModelCalculator: useState<CalculationResults | null>
  calculationError,  \* AIModelCalculator: useState<string | null>
  searchQuery,       \* HuggingFaceModelSearch: useState('')
  searchResults,     \* HuggingFaceModelSearch: useState<ModelSearchResult[]>([])
  isSearching,       \* HuggingFaceModelSearch: useState(false)
  searchError,       \* HuggingFaceModelSearch: error, useState<string>('')
  timeouts,          \* HuggingFaceModelSearch: the pending setTimeout callbacks
  requests,          \* HuggingFaceModelSearch: the searchModels calls awaited
  finderRequirements,\* AIStackFinder: requirements, useState<ProjectRequirements>
  suggestions,       \* AIStackFinder: useState<AIStackSuggestion | null>
  isGenerating,      \* AIStackFinder: useState(false)
  finderError,       \* AIStackFinder: error, useState<string | null>
  generating,        \* AIStackFinder: the handleGenerateRecommendations calls awaited
  availableGPUs,     \* DeviceModelMatrix: the availableGPUs prop
  filters            \* DeviceModelMatrix: useState<FilterState>

engineVars == <<args, call, ret>>

uiVars == <<gpus, selectedGPU, modelSpecs, systemOverhead, results, calculationError>>

searchVars == <<searchQuery, searchResults, isSearching, searchError, timeouts, requests>>

finderVars == <<finderRequirements, suggestions, isGenerating, finderError, generating>>

matrixVars == <<availableGPUs, filters>>

componentVars == <<searchVars, finderVars, matrixVars>>

vars == <<args, call, ret, gpus, selectedGPU, modelSpecs, systemOverhead, results,
          calculationError, componentVars>>

Null == [null |-> TRUE]

\* a string held in a nullable state cell
Str(s) == [text |-> s]

\* ------------------------------------------------------------------------
\* Bounded inputs
\* ------------------------------------------------------------------------

MaxSeqLen == 2

MaxBatch == 2

MaxNum == 3

GPU(name, compute, bandwidth, memory) ==
  [name |-> name, computeBandwidth |-> compute, memoryBandwidth |-> bandwidth,
   memorySize |-> memory]

\* the accelerator of the worked example, and the custom-GPU defaults
ExampleGPU == GPU("Example", Num(1000), Num(3000), Num(80))

CustomGPU == GPU("Custom GPU", Num(100), Num(500), Num(16))

\* a 7B-parameter model with a complete architecture
BaseModel ==
  [parameters |-> Num(7), sequenceLength |-> Num(4096), batchSize |-> Num(1),
   promptTokens |-> Num(350), outputTokens |-> Num(150), quantization |-> "FP16",
   headDimension |-> Num(128), nLayers |-> Num(32), nHeads |-> Num(32),
   nKvHeads |-> Num(8), hiddenSize |-> Num(4096), intermediateSize |-> Num(11008)]

Quantizations == {"FP32", "FP16", "INT8", "INT4"}

ArchFields ==
  {"headDimension", "nLayers", "nHeads", "nKvHeads", "hiddenSize", "intermediateSize"}

ArchValue(v, choice) ==
  CASE choice = "present"   -> v
    [] choice = "undefined" -> Undefined
    [] choice = "NaN"       -> NaN
    [] choice = "+Infinity" -> PosInf
    [] choice = "-Infinity" -> NegInf
    [] choice = "0"         -> Zero
    [] choice = "negative"  -> Neg(v)

WithArch(c) ==
  [f \in DOMAIN BaseModel |->
     IF f \in ArchFields THEN ArchValue(BaseModel[f], c[f]) ELSE BaseModel[f]]

\* every architecture field present, undefined or +Infinity, in every combination;
\* plus one field at a time NaN, -Infinity, 0 or negative
ArchModels ==
  { WithArch(c) : c \in [ArchFields -> {"present", "undefined", "+Infinity"}] }
  \cup
  { WithArch([f \in ArchFields |-> IF f = g[1] THEN g[2] ELSE "present"]) :
      g \in ArchFields \X {"NaN", "-Infinity", "0", "negative"} }

\* workloads on a complete architecture: context length, batch size, quantization
WorkModels ==
  { [BaseModel EXCEPT !.sequenceLength = Num(w[1]), !.batchSize = Num(w[2]),
                      !.quantization = w[3], !.headDimension = Num(w[4])] :
      w \in ((0..MaxSeqLen) \cup {4096}) \X (0..MaxBatch) \X Quantizations \X {64, 128} }

\* memory sizes (GB) on both sides of every warning threshold of a 4..33 GB workload
MemorySizes == {0, 1, 8, 10, 15, 16, 18, 20, 80}

MemInputs ==
  { [gpu |-> [CustomGPU EXCEPT !.memorySize = Num(m[1])],
     model |-> [BaseModel EXCEPT !.parameters = Num(m[2]), !.quantization = m[3],
                                 !.batchSize = Num(m[4]), !.promptTokens = Num(m[5]),
                                 !.outputTokens = Num(m[6])],
     systemOverhead |-> DEFAULT_SYSTEM_OVERHEAD] :
      m \in MemorySizes \X {7, 8} \X Quantizations \X (0..MaxBatch) \X {0, 350} \X {0, 150} }

\* the slider gives 0..120, the text field 1..200
Efficiencies == {0, 1, 50, 80, 100, 105, 120, 200}

Overheads == {Undefined} \cup { [systemEfficiencyPercent |-> Num(e)] : e \in Efficiencies }

EffInputs ==
  { [gpu |-> e[1],
     model |-> [BaseModel EXCEPT !.parameters = Num(e[2]), !.quantization = e[3],
                                 !.promptTokens = Num(e[4])],
     systemOverhead |-> e[5]] :
      e \in {ExampleGPU, CustomGPU} \X {7, 8} \X Quantizations \X {0, 350} \X Overheads }

EngineInputs ==
  { [gpu |-> ExampleGPU, model |-> m, systemOverhead |-> DEFAULT_SYSTEM_OVERHEAD] :
      m \in ArchModels \cup WorkModels }
  \cup MemInputs \cup EffInputs

\* numbers handed to determineBottleneck and calculateThroughput
Numbers ==
  { Rat(i, j) : i \in 0..MaxNum, j \in {1, 3, 10} }
  \cup { Num(1000), Rat(1000, 3), Num(-1), NaN, PosInf, NegInf }

NoArgs == [family |-> "none", gpu |-> ExampleGPU, model |-> BaseModel,
           systemOverhead |-> DEFAULT_SYSTEM_OVERHEAD, a |-> Zero, b |-> Zero]

EngineArgs ==
  { [NoArgs EXCEPT !.family = "engine", !.gpu = i.gpu, !.model = i.model,
                   !.systemOverhead = i.systemOverhead] : i \in EngineInputs }

NumberArgs ==
  { [NoArgs EXCEPT !.family = "numbers", !.a = p[1], !.b = p[2]] :
      p \in Numbers \X Numbers }

\* ------------------------------------------------------------------------
\* SpecEngine: one call of an engine function on drawn arguments
\* ------------------------------------------------------------------------

UIIdle ==
  /\ gpus = << >>
  /\ selectedGPU = Null
  /\ modelSpecs = Null
  /\ systemOverhead = DEFAULT_SYSTEM_OVERHEAD
  /\ results = Null
  /\ calculationError = Null

\* part_000 lines 38-43
SearchIdle ==
  /\ searchQuery = ""
  /\ searchResults = << >>
  /\ isSearching = FALSE
  /\ searchError = ""
  /\ timeouts = << >>
  /\ requests = << >>

\* AIStackFinder.tsx lines 21-24
FinderIdle ==
  /\ finderRequirements = DEFAULT_PROJECT_REQUIREMENTS
  /\ suggestions = Null
  /\ isGenerating = FALSE
  /\ finderError = Null
  /\ generating = << >>

\* part_004 lines 207-214
MatrixIdle ==
  /\ availableGPUs = << >>
  /\ filters = [ttftRange          |-> <<Num(0), Num(10000)>>,
                itlRange           |-> <<Num(0), Num(1000)>>,
                budgetRange        |-> <<Num(0), Num(5000)>>,
                alpacaEvalRange    |-> <<Num(0), Num(100)>>,
                contextLengthRange |-> <<Num(0), Num(200000)>>,
                inputTokenCount    |-> Num(512)]

ComponentsIdle == SearchIdle /\ FinderIdle /\ MatrixIdle

InitEngine ==
  /\ args \in EngineArgs \cup NumberArgs
  /\ call = "none"
  /\ ret = Ret(NoValue)
  /\ UIIdle
  /\ ComponentsIdle

CallCalculatePerformance ==
  /\ call = "none"
  /\ args.family = "engine"
  /\ call' = "calculatePerformance"
  /\ ret' = calculatePerformance(args.gpu, args.model, args.systemOverhead)
  /\ UNCHANGED <<args, gpus, selectedGPU, modelSpecs, systemOverhead, results,
                 calculationError, componentVars>>

CallCalculateArithmeticIntensity ==
  /\ call = "none"
  /\ args.family = "engine"
  /\ call' = "calculateArithmeticIntensity"
  /\ ret' = calculateArithmeticIntensity(args.model)
  /\ UNCHANGED <<args, gpus, selectedGPU, modelSpecs, systemOverhead, results,
                 calculationError, componentVars>>

CallCheckMemoryFit ==
  /\ call = "none"
  /\ args.family = "engine"
  /\ call' = "checkMemoryFit"
  /\ ret' = checkMemoryFit(args.gpu, args.model)
  /\ UNCHANGED <<args, gpus, selectedGPU, modelSpecs, systemOverhead, results,
                 calculationError, componentVars>>

CallCalculatePrefillTime ==
  /\ call = "none"
  /\ args.family = "engine"
  /\ call' = "calculatePrefillTime"
  /\ ret' = Ret(calculatePrefillTime(args.gpu, args.model, args.systemOverhead))
  /\ UNCHANGED <<args, gpus, selectedGPU, modelSpecs, systemOverhead, results,
                 calculationError, componentVars>>

CallCalculateTimePerToken ==
  /\ call = "none"
  /\ args.family = "engine"
  /\ call' = "calculateTimePerToken"
  /\ ret' = Ret(calculateTimePerToken(args.gpu, args.model, args.systemOverhead))
  /\ UNCHANGED <<args, gpus, selectedGPU, modelSpecs, systemOverhead, results,
                 calculationError, componentVars>>

CallDetermineBottleneck ==
  /\ call = "none"
  /\ args.family = "numbers"
  /\ call' = "determineBottleneck"
  /\ ret' = Ret(determineBottleneck(args.a, args.b))
  /\ UNCHANGED <<args, gpus, selectedGPU, modelSpecs, systemOverhead, results,
                 calculationError, componentVars>>

CallCalculateThroughput ==
  /\ call = "none"
  /\ args.family = "numbers"
  /\ call' = "calculateThroughput"
  /\ ret' = Ret(calculateThroughput(args.a, args.b))
  /\ UNCHANGED <<args, gpus, selectedGPU, modelSpecs, systemOverhead, results,
                 calculationError, componentVars>>

NextEngine ==
  \/ CallCalculatePerformance
  \/ CallCalculateArithmeticIntensity
  \/ CallCheckMemoryFit
  \/ CallCalculatePrefillTime
  \/ CallCalculateTimePerToken
  \/ CallDetermineBottleneck
  \/ CallCalculateThroughput

SpecEngine == InitEngine /\ [][NextEngine]_vars

\* ------------------------------------------------------------------------
\* Spec: AIModelCalculator (state, handlers and the calculation effect)
\* ------------------------------------------------------------------------

\* useGPUs: the GPU list delivered by the loader
GPUCatalog == << ExampleGPU, [ExampleGPU EXCEPT !.name = "Small", !.memorySize = Num(8)] >>

\* what onGPUChange can deliver: a catalog entry or the edited custom GPU
UIGpus ==
  { GPUCatalog[i] : i \in DOMAIN GPUCatalog }
  \cup { CustomGPU, [CustomGPU EXCEPT !.memorySize = Zero] }

\* what onModelChange can deliver: complete and incomplete architectures
UIModels ==
  { BaseModel,
    [BaseModel EXCEPT !.batchSize = Num(MaxBatch)],
    [BaseModel EXCEPT !.sequenceLength = Zero],
    [BaseModel EXCEPT !.nKvHeads = Undefined],
    [BaseModel EXCEPT !.headDimension = Undefined],
    [BaseModel EXCEPT !.hiddenSize = Undefined, !.nLayers = Undefined],
    [BaseModel EXCEPT !.nKvHeads = Undefined, !.nHeads = Undefined] }

\* part_001 lines 43-48: what the slider (min 0, max 120, step 5) can deliver
UIOverheads == { [systemEfficiencyPercent |-> Num(e)] : e \in {0, 100} }

\* parseFloat of the texts typed into a field
parseFloat(text) ==
  IF text = "0" THEN Zero ELSE IF text = "-5" THEN Neg(Num(5)) ELSE NaN

\* part_002 lines 82-90: what the try / catch stores
effectOutcome(outcome) ==
  IF outcome.threw
  THEN [results |-> Null, calculationError |-> Str(outcome.message)]
  ELSE [results |-> outcome.value, calculationError |-> Null]

\* variant: a failed evaluation leaves the stored results in place
calculationEffectKeepingResults(gpu, model, overhead, oldResults, oldError) ==
  IF gpu # Null /\ model # Null
  THEN IF calculatePerformance(gpu, model, overhead).threw
       THEN [results |-> oldResults,
             calculationError |-> Str(calculatePerformance(gpu, model, overhead).message)]
       ELSE effectOutcome(calculatePerformance(gpu, model, overhead))
  ELSE [results |-> oldResults, calculationError |-> oldError]

\* part_002 lines 79-92: the effect on [selectedGPU, modelSpecs, systemOverhead];
\* gives the next results and calculationError
calculationEffect(gpu, model, overhead, oldResults, oldError) ==
  IF gpu # Null /\ model # Null
  THEN effectOutcome(calculatePerformance(gpu, model, overhead))
  ELSE [results |-> oldResults, calculationError |-> oldError]

RunEffect(gpu, model, overhead) ==
  \E e \in {calculationEffect(gpu, model, overhead, results, calculationError)} :
    /\ results' = e.results
    /\ calculationError' = e.calculationError

Init ==
  /\ args = NoArgs
  /\ call = "none"
  /\ ret = Ret(NoValue)
  /\ UIIdle
  /\ ComponentsIdle

\* part_005 lines 10-24 and part_002 lines 66-70: the list arrives, the first GPU
\* becomes the default selection
LoadGPUs ==
  /\ gpus = << >>
  /\ gpus' = GPUCatalog
  /\ selectedGPU' = IF selectedGPU = Null THEN GPUCatalog[1] ELSE selectedGPU
  /\ RunEffect(selectedGPU', modelSpecs, systemOverhead)
  /\ UNCHANGED <<modelSpecs, systemOverhead, engineVars, componentVars>>

\* part_002 line 221: onGPUChange={setSelectedGPU}; the inputs are rendered only
\* once the GPU list has loaded (lines 94-107)
GPUChange ==
  /\ gpus # << >>
  /\ \E g \in UIGpus :
       /\ selectedGPU' = g
       /\ RunEffect(g, modelSpecs, systemOverhead)
  /\ UNCHANGED <<gpus, modelSpecs, systemOverhead, engineVars, componentVars>>

\* part_002 line 255: onModelChange={setModelSpecs}
ModelChange ==
  /\ gpus # << >>
  /\ \E m \in UIModels :
       /\ modelSpecs' = m
       /\ RunEffect(selectedGPU, m, systemOverhead)
  /\ UNCHANGED <<gpus, selectedGPU, systemOverhead, engineVars, componentVars>>

\* part_002 line 237: onSystemOverheadChange={setSystemOverhead}
\* part_001 lines 22-24 and 43-48: the slider's onChange through handleInputChange
OverheadChange ==
  /\ gpus # << >>
  /\ \E o \in UIOverheads :
       /\ systemOverhead' = Spread(systemOverhead, o)
       /\ RunEffect(selectedGPU, modelSpecs, systemOverhead')
  /\ UNCHANGED <<gpus, selectedGPU, modelSpecs, engineVars, componentVars>>

\* SystemOverheadInputs.tsx lines 22-24, 30-38 and 49-57: the text fields'
\* onChange, handleInputChange(field, parseFloat(e.target.value) || 100)
OverheadFieldChange ==
  /\ gpus # << >>
  /\ \E field \in {"prefillEfficiencyPercent", "decodeEfficiencyPercent"},
        text \in {"0", "-5"} :
       /\ systemOverhead' =
            Spread(systemOverhead, [f \in {field} |-> OrElse(parseFloat(text), Num(100))])
       /\ RunEffect(selectedGPU, modelSpecs, systemOverhead')
  /\ UNCHANGED <<gpus, selectedGPU, modelSpecs, engineVars, componentVars>>

\* part_002 line 270: onClose={() => setCalculationError(null)}
DismissError ==
  /\ calculationError # Null
  /\ calculationError' = Null
  /\ UNCHANGED <<gpus, selectedGPU, modelSpecs, systemOverhead, results, engineVars, componentVars>>

Next ==
  \/ LoadGPUs
  \/ GPUChange
  \/ ModelChange
  \/ OverheadChange
  \/ OverheadFieldChange
  \/ DismissError

Spec == Init /\ [][Next]_vars

\* part_002 line 284: the results panel is rendered
ResultsShown == results # Null /\ selectedGPU # Null /\ calculationError = Null

\* ------------------------------------------------------------------------
\* Stack recommendation (src/src/utils/stackRecommendation.ts)
\*
\* Requirement lists are sequences (their length and order are used); the
\* support lists of a catalog component are only ever asked `includes`, and
\* are sets.  The descriptive fields of a component (description, vendor,
\* license, URLs, alternatives, communitySize, lastUpdated) are not read by
\* the recommendation code and are left out; name is the id.  The catalog
\* STACK_COMPONENTS is a parameter of the operators that read it.
\* ------------------------------------------------------------------------

\* Math.round: the nearest integer, halves upwards
MathRound(x) ==
  IF IsNaN(x) THEN NaN
  ELSE IF x.k = "inf" THEN x
  ELSE MathFloor(Add(x, Rat(1, 2)))

\* Math.ceil
MathCeil(x) == Neg(MathFloor(Neg(x)))

\* Array.prototype.indexOf, zero-based, -1 when absent
indexOf(arr, x) ==
  IF \E i \in DOMAIN arr : arr[i] = x
  THEN (CHOOSE i \in DOMAIN arr : arr[i] = x /\ \A j \in 1..(i - 1) : arr[j] # x) - 1
  ELSE -1

\* arr.some(x => supported.includes(x))
someIncluded(arr, supported) == \E i \in DOMAIN arr : arr[i] \in supported

\* arr.filter(x => supported.includes(x)).length
countIncluded(arr, supported) == Cardinality({ i \in DOMAIN arr : arr[i] \in supported })

budgetOrder == <<"minimal", "small", "medium", "large", "enterprise">>

isBudgetCompatibleStrict(componentBudget, projectBudget) ==
  indexOf(budgetOrder, componentBudget) < indexOf(budgetOrder, projectBudget)

\* isBudgetCompatible that also admits a component one tier above the budget
isBudgetCompatibleOneTierAbove(componentBudget, projectBudget) ==
  indexOf(budgetOrder, componentBudget) <= indexOf(budgetOrder, projectBudget) + 1

isBudgetCompatible(componentBudget, projectBudget) ==
  indexOf(budgetOrder, componentBudget) <= indexOf(budgetOrder, projectBudget)

\* the callback of STACK_COMPONENTS.filter
componentMatchesAnyCompliance(component, requirements) ==
  /\ someIncluded(requirements.programmingLanguages, component.supportedLanguages)
  /\ someIncluded(requirements.useCase, component.supportedUseCases)
  /\ requirements.scalabilityNeeds \in component.scalabilitySupport
  /\ someIncluded(requirements.deploymentTarget, component.deploymentTargets)
  /\ isBudgetCompatible(component.minBudgetRange, requirements.budgetRange)
  /\ someIncluded(requirements.dataTypes, component.supportedDataTypes)
  /\ requirements.dataSize \in component.supportedDataSizes
  /\ (requirements.complianceRequirements = << >>
        \/ someIncluded(requirements.complianceRequirements, component.complianceSupport))
  /\ requirements.securityLevel \in component.securityFeatures

componentMatches(component, requirements) ==
  /\ someIncluded(requirements.programmingLanguages, component.supportedLanguages)
  /\ someIncluded(requirements.useCase, component.supportedUseCases)
  /\ requirements.scalabilityNeeds \in component.scalabilitySupport
  /\ someIncluded(requirements.deploymentTarget, component.deploymentTargets)
  /\ isBudgetCompatible(component.minBudgetRange, requirements.budgetRange)
  /\ someIncluded(requirements.dataTypes, component.supportedDataTypes)
  /\ requirements.dataSize \in component.supportedDataSizes
  /\ (\A i \in DOMAIN requirements.complianceRequirements :
        requirements.complianceRequirements[i] \in component.complianceSupport)
  /\ requirements.securityLevel \in component.securityFeatures

\* the callback without its first check
componentMatchesWithoutLanguage(component, requirements) ==
  /\ someIncluded(requirements.useCase, component.supportedUseCases)
  /\ requirements.scalabilityNeeds \in component.scalabilitySupport
  /\ someIncluded(requirements.deploymentTarget, component.deploymentTargets)
  /\ isBudgetCompatible(component.minBudgetRange, requirements.budgetRange)
  /\ someIncluded(requirements.dataTypes, component.supportedDataTypes)
  /\ requirements.dataSize \in component.supportedDataSizes
  /\ (\A i \in DOMAIN requirements.complianceRequirements :
        requirements.complianceRequirements[i] \in component.complianceSupport)
  /\ requirements.securityLevel \in component.securityFeatures

filterWithoutLanguageCheck(STACK_COMPONENTS, requirements) ==
  SelectSeq(STACK_COMPONENTS,
            LAMBDA component : componentMatchesWithoutLanguage(component, requirements))

filterComponentsByRequirements(STACK_COMPONENTS, requirements) ==
  SelectSeq(STACK_COMPONENTS, LAMBDA component : componentMatches(component, requirements))

\* the keys of `grouped` in insertion order: each category at its first component
RECURSIVE groupedCategories(_)
groupedCategories(components) ==
  IF components = << >> THEN << >>
  ELSE IF \E i \in 1..(Len(components) - 1) :
            components[i].category = components[Len(components)].category
       THEN groupedCategories(SubSeq(components, 1, Len(components) - 1))
       ELSE Append(groupedCategories(SubSeq(components, 1, Len(components) - 1)),
                   components[Len(components)].category)

\* Object.entries of the grouped record: <<category, components>> pairs
groupComponentsByCategory(components) ==
  [i \in 1..Len(groupedCategories(components)) |->
     [category   |-> groupedCategories(components)[i],
      components |-> SelectSeq(components,
                               LAMBDA c : c.category = groupedCategories(components)[i])]]

getMaturityScore(maturity) ==
  IF maturity = "experimental" THEN Num(3)
  ELSE IF maturity = "beta" THEN Num(8)
  ELSE IF maturity = "stable" THEN Num(12)
  ELSE IF maturity = "mature" THEN Num(15)
  ELSE Num(8)

getLearningCurveScore(curve) ==
  IF curve = "easy" THEN Num(10)
  ELSE IF curve = "moderate" THEN Num(7)
  ELSE IF curve = "steep" THEN Num(4)
  ELSE IF curve = "expert" THEN Num(2)
  ELSE Num(5)

getPerformanceScore(component, requirements) ==
  Add(Add(Zero,
          IF requirements.latencyRequirement \in component.latencyProfile
          THEN Num(5) ELSE Zero),
      IF requirements.throughputRequirement \in component.throughputProfile
      THEN Num(5) ELSE Zero)

getIntegrationScore(complexity) ==
  IF complexity = "simple" THEN Num(5)
  ELSE IF complexity = "moderate" THEN Num(3)
  ELSE IF complexity = "complex" THEN Num(2)
  ELSE IF complexity = "expert" THEN Num(1)
  ELSE Num(2)

getBudgetScore(componentBudget, projectBudget) ==
  IF indexOf(budgetOrder, componentBudget) <= indexOf(budgetOrder, projectBudget)
  THEN Num(5)
  ELSE IF indexOf(budgetOrder, componentBudget) = indexOf(budgetOrder, projectBudget) + 1
       THEN Num(3)
       ELSE Num(1)

languageScore(component, requirements) ==
  Mul(Div(Num(countIncluded(requirements.programmingLanguages,
                            component.supportedLanguages)),
          Num(Len(requirements.programmingLanguages))),
      Num(20))

useCaseScore(component, requirements) ==
  Mul(Div(Num(countIncluded(requirements.useCase, component.supportedUseCases)),
          Num(Len(requirements.useCase))),
      Num(25))

\* the running `score` of scoreComponent before the cap
uncappedScore(component, requirements) ==
  Add(Add(Add(Add(Add(Add(Add(Add(Zero,
      languageScore(component, requirements)),
      useCaseScore(component, requirements)),
      getMaturityScore(component.maturityLevel)),
      getLearningCurveScore(component.learningCurve)),
      component.popularityScore),
      getPerformanceScore(component, requirements)),
      getIntegrationScore(component.integrationComplexity)),
      getBudgetScore(component.minBudgetRange, requirements.budgetRange))

matchReasons(component, requirements) ==
  (IF Gt(languageScore(component, requirements), Num(15))
   THEN << <<"Excellent language support for ", requirements.programmingLanguages>> >>
   ELSE << >>)
  \o (IF Gt(useCaseScore(component, requirements), Num(20))
      THEN << <<"Specifically designed for ", requirements.useCase>> >>
      ELSE << >>)
  \o (IF Gt(getMaturityScore(component.maturityLevel), Num(12))
      THEN << <<"Mature and stable (", component.maturityLevel, ")">> >>
      ELSE << >>)
  \o (IF Gt(component.popularityScore, Num(8))
      THEN << <<"Strong community support and popularity">> >>
      ELSE << >>)

concerns(component, requirements) ==
  (IF ~Gt(getMaturityScore(component.maturityLevel), Num(12))
      /\ Lt(getMaturityScore(component.maturityLevel), Num(8))
   THEN << <<"Still in ", component.maturityLevel, " stage">> >>
   ELSE << >>)
  \o (IF Lt(getLearningCurveScore(component.learningCurve), Num(5))
      THEN << <<"Steep learning curve (", component.learningCurve, ")">> >>
      ELSE << >>)
  \o (IF Lt(getIntegrationScore(component.integrationComplexity), Num(2))
      THEN << <<"Complex integration required">> >>
      ELSE << >>)
  \o (IF Lt(getBudgetScore(component.minBudgetRange, requirements.budgetRange), Num(3))
      THEN << <<"May exceed budget constraints">> >>
      ELSE << >>)

\* the notes joined by '. ', or undefined (NoMessage) when there are none
generateIntegrationNotes(component, requirements) ==
  (IF Len(component.dependencies) > 0
   THEN << <<"Requires: ", component.dependencies>> >>
   ELSE << >>)
  \o (IF component.integrationComplexity = "expert"
      THEN << <<"Consider hiring specialists or using managed services">> >>
      ELSE << >>)
  \o (IF (\E i \in DOMAIN requirements.deploymentTarget :
             requirements.deploymentTarget[i] = "edge")
         /\ "edge" \notin component.deploymentTargets
      THEN << <<"May need additional optimization for edge deployment">> >>
      ELSE << >>)

scoreComponent(component, requirements) ==
  [component        |-> component,
   score            |-> MathMin(Num(100), uncappedScore(component, requirements)),
   matchReasons     |-> matchReasons(component, requirements),
   concerns         |-> concerns(component, requirements),
   integrationNotes |-> generateIntegrationNotes(component, requirements)]

\* Array.prototype.sort with (a, b) => b.score - a.score: stable, and the next
\* element moves in front of every one it compares greater than
RECURSIVE insertByScore(_, _)
insertByScore(sorted, x) ==
  IF sorted = << >> THEN <<x>>
  ELSE IF Gt(Sub(x.score, sorted[Len(sorted)].score), Zero)
       THEN Append(insertByScore(SubSeq(sorted, 1, Len(sorted) - 1), x),
                   sorted[Len(sorted)])
       ELSE Append(sorted, x)

RECURSIVE sortByScore(_)
sortByScore(scored) ==
  IF scored = << >> THEN << >>
  ELSE insertByScore(sortByScore(SubSeq(scored, 1, Len(scored) - 1)),
                     scored[Len(scored)])

\* components.map(scoreComponent) without the sort
scoredInCatalogOrder(components, requirements) ==
  [i \in 1..Len(components) |-> scoreComponent(components[i], requirements)]

scoredComponents(components, requirements) ==
  sortByScore([i \in 1..Len(components) |-> scoreComponent(components[i], requirements)])

\* Array.prototype.slice(from, to), zero-based and end-exclusive
slice(arr, from, to) == SubSeq(arr, from + 1, MinInt(to, Len(arr)))

generateCategoryReasoning(category, requirements) ==
  IF category = "ml-framework"
  THEN <<"Based on your ", requirements.useCase, " use case and ",
         requirements.programmingLanguages, " language preference">>
  ELSE IF category = "model-serving"
  THEN <<"For ", requirements.latencyRequirement, " latency requirements and ",
         requirements.deploymentTarget, " deployment">>
  ELSE IF category = "data-storage"
  THEN <<"Considering your ", requirements.dataSize, " dataset size and ",
         requirements.dataTypes, " data types">>
  ELSE IF category = "data-processing"
  THEN <<"For handling ", requirements.dataSize, " datasets with ",
         requirements.scalabilityNeeds, " scalability needs">>
  ELSE IF category = "monitoring"
  THEN <<"Essential for ", requirements.projectType, " projects with ",
         requirements.securityLevel, " security requirements">>
  ELSE IF category = "deployment"
  THEN <<"Optimized for ", requirements.deploymentTarget, " deployment targets">>
  ELSE IF category = "orchestration"
  THEN <<"Required for ", requirements.scalabilityNeeds, " scalability with ",
         requirements.teamSize, " team size">>
  ELSE IF category = "experiment-tracking"
  THEN <<"Important for ", requirements.projectType, " projects with ",
         requirements.timelineWeeks, "-week timeline">>
  ELSE IF category = "data-ingestion"
  THEN <<"For processing ", requirements.dataTypes, " data types at ",
         requirements.throughputRequirement, " throughput">>
  ELSE IF category = "model-training"
  THEN <<"Suitable for ", requirements.useCase, " with ", requirements.budgetRange,
         " budget constraints">>
  ELSE IF category = "feature-store"
  THEN <<"Recommended for ", requirements.scalabilityNeeds, " architecture with ",
         requirements.dataSize, " data volume">>
  ELSE IF category = "model-registry"
  THEN <<"Essential for ", requirements.projectType,
         " projects with team collaboration needs">>
  ELSE IF category = "infrastructure"
  THEN <<"Supporting ", requirements.deploymentTarget, " deployment with ",
         requirements.securityLevel, " security">>
  ELSE IF category = "security"
  THEN <<"Meeting ", requirements.complianceRequirements, " compliance and ",
         requirements.securityLevel, " security level">>
  ELSE IF category = "visualization"
  THEN <<"For monitoring and analysis of ", requirements.useCase, " workflows">>
  ELSE <<"Recommended based on your project requirements">>

basePriorities ==
  [c \in {"data-ingestion", "data-processing", "data-storage", "ml-framework",
          "model-training", "model-serving", "monitoring", "orchestration",
          "feature-store", "experiment-tracking", "model-registry", "deployment",
          "infrastructure", "security", "visualization"} |->
     CASE c = "ml-framework" -> 1
       [] c = "data-processing" -> 2
       [] c = "data-storage" -> 3
       [] c = "model-training" -> 4
       [] c = "model-serving" -> 5
       [] c = "deployment" -> 6
       [] c = "monitoring" -> 7
       [] c = "experiment-tracking" -> 8
       [] c = "orchestration" -> 9
       [] c = "infrastructure" -> 10
       [] c = "security" -> 11
       [] c = "feature-store" -> 12
       [] c = "model-registry" -> 13
       [] c = "data-ingestion" -> 14
       [] c = "visualization" -> 15]

getCategoryPriorities(requirements) ==
  IF requirements.projectType = "research"
  THEN [basePriorities EXCEPT !["experiment-tracking"] = 3, !["visualization"] = 4]
  ELSE IF requirements.projectType = "production"
       THEN [basePriorities EXCEPT !["monitoring"] = 3, !["security"] = 4,
                                   !["deployment"] = 2]
       ELSE basePriorities

\* categoryPriorities[category] || 10
priorityOf(categoryPriorities, category) ==
  IF category \in DOMAIN categoryPriorities /\ categoryPriorities[category] # 0
  THEN categoryPriorities[category]
  ELSE 10

\* recommendations.sort((a, b) => priorityA - priorityB), stable
RECURSIVE insertByPriority(_, _, _)
insertByPriority(sorted, x, categoryPriorities) ==
  IF sorted = << >> THEN <<x>>
  ELSE IF priorityOf(categoryPriorities, sorted[Len(sorted)].category)
            - priorityOf(categoryPriorities, x.category) > 0
       THEN Append(insertByPriority(SubSeq(sorted, 1, Len(sorted) - 1), x,
                                    categoryPriorities),
                   sorted[Len(sorted)])
       ELSE Append(sorted, x)

RECURSIVE sortByPriority(_, _)
sortByPriority(recommendations, categoryPriorities) ==
  IF recommendations = << >> THEN << >>
  ELSE insertByPriority(sortByPriority(SubSeq(recommendations, 1,
                                              Len(recommendations) - 1),
                                       categoryPriorities),
                        recommendations[Len(recommendations)], categoryPriorities)

\* the StackRecommendation pushed for one category
categoryRecommendation(category, scored, requirements) ==
  [category              |-> category,
   recommendedComponents |-> slice(scored, 0, 3),
   reasoning             |-> generateCategoryReasoning(category, requirements),
   alternatives          |-> slice(scored, 3, 6)]

\* the loop over Object.entries(componentsByCategory), empty groups skipped, and
\* the final sort
generateCategoryRecommendations(componentsByCategory, requirements) ==
  sortByPriority(
    [i \in 1..Len(SelectSeq(componentsByCategory, LAMBDA e : Len(e.components) # 0)) |->
       categoryRecommendation(
         SelectSeq(componentsByCategory, LAMBDA e : Len(e.components) # 0)[i].category,
         scoredComponents(
           SelectSeq(componentsByCategory, LAMBDA e : Len(e.components) # 0)[i].components,
           requirements),
         requirements)],
    getCategoryPriorities(requirements))

\* recommendedComponents.reduce((catSum, comp) => catSum + comp.score, 0)
RECURSIVE categoryScore(_)
categoryScore(recommended) ==
  IF recommended = << >> THEN Zero
  ELSE Add(categoryScore(SubSeq(recommended, 1, Len(recommended) - 1)),
           recommended[Len(recommended)].score)

\* recommendations.reduce((sum, rec) => sum + categoryScore / length, 0)
RECURSIVE totalScore(_)
totalScore(recommendations) ==
  IF recommendations = << >> THEN Zero
  ELSE Add(totalScore(SubSeq(recommendations, 1, Len(recommendations) - 1)),
           Div(categoryScore(recommendations[Len(recommendations)].recommendedComponents),
               Num(Len(recommendations[Len(recommendations)].recommendedComponents))))

calculateOverallScoreUnguarded(recommendations) ==
  MathRound(Div(totalScore(recommendations), Num(Len(recommendations))))

calculateOverallScoreUnrounded(recommendations) ==
  IF Len(recommendations) = 0 THEN Zero
  ELSE Div(totalScore(recommendations), Num(Len(recommendations)))

calculateOverallScore(recommendations) ==
  IF Len(recommendations) = 0 THEN Zero
  ELSE MathRound(Div(totalScore(recommendations), Num(Len(recommendations))))

\* determineArchitecturePattern with the scalability rules ahead of the deployment
\* target rule
determineArchitecturePatternScalabilityFirst(requirements) ==
  IF requirements.scalabilityNeeds = "cloud-native" THEN "serverless"
  ELSE IF requirements.scalabilityNeeds = "distributed"
          \/ requirements.teamSize = "large-team"
  THEN "microservices"
  ELSE IF \E i \in DOMAIN requirements.deploymentTarget :
            requirements.deploymentTarget[i] \in {"edge", "mobile"}
  THEN "edge-cloud"
  ELSE IF requirements.projectType = "enterprise" THEN "hybrid"
  ELSE "monolithic"

determineArchitecturePattern(requirements) ==
  IF \E i \in DOMAIN requirements.deploymentTarget :
       requirements.deploymentTarget[i] \in {"edge", "mobile"}
  THEN "edge-cloud"
  ELSE IF requirements.scalabilityNeeds = "cloud-native" THEN "serverless"
  ELSE IF requirements.scalabilityNeeds = "distributed"
          \/ requirements.teamSize = "large-team"
  THEN "microservices"
  ELSE IF requirements.projectType = "enterprise" THEN "hybrid"
  ELSE "monolithic"

budgetRanges ==
  [minimal    |-> [min |-> Num(0), max |-> Num(1000)],
   small      |-> [min |-> Num(1000), max |-> Num(10000)],
   medium     |-> [min |-> Num(10000), max |-> Num(50000)],
   large      |-> [min |-> Num(50000), max |-> Num(200000)],
   enterprise |-> [min |-> Num(200000), max |-> Num(1000000)]]

getComplexityMultiplier(requirements, recommendations) ==
  Add(Add(Add(Add(Num(1),
      IF requirements.scalabilityNeeds = "distributed" THEN Rat(5, 10) ELSE Zero),
      IF Len(requirements.complianceRequirements) > 1 THEN Rat(3, 10) ELSE Zero),
      IF requirements.securityLevel = "critical" THEN Rat(4, 10) ELSE Zero),
      IF Len(recommendations) > 8 THEN Rat(2, 10) ELSE Zero)

estimateCosts(requirements, recommendations) ==
  [range |-> requirements.budgetRange,
   monthlyEstimate |->
     [min |-> MathRound(Mul(Mul(budgetRanges[requirements.budgetRange].min,
                                getComplexityMultiplier(requirements, recommendations)),
                            Rat(1, 10))),
      max |-> MathRound(Mul(Mul(budgetRanges[requirements.budgetRange].max,
                                getComplexityMultiplier(requirements, recommendations)),
                            Rat(1, 10))),
      currency |-> "USD"],
   breakdown |->
     <<[category |-> "Infrastructure", percentage |-> 40],
       [category |-> "Software Licenses", percentage |-> 20],
       [category |-> "Development", percentage |-> 30],
       [category |-> "Operations", percentage |-> 10]>>]

timelinePhases(weeks) ==
  <<[name |-> "Planning & Setup", weeks |-> MathCeil(Mul(weeks, Rat(15, 100))),
     dependencies |-> << >>],
    [name |-> "Data Infrastructure", weeks |-> MathCeil(Mul(weeks, Rat(25, 100))),
     dependencies |-> <<"Planning & Setup">>],
    [name |-> "Model Development", weeks |-> MathCeil(Mul(weeks, Rat(35, 100))),
     dependencies |-> <<"Data Infrastructure">>],
    [name |-> "Deployment & Integration", weeks |-> MathCeil(Mul(weeks, Rat(20, 100))),
     dependencies |-> <<"Model Development">>],
    [name |-> "Testing & Optimization", weeks |-> MathCeil(Mul(weeks, Rat(5, 100))),
     dependencies |-> <<"Deployment & Integration">>]>>

\* phases.reduce((sum, phase) => sum + phase.weeks, 0)
RECURSIVE sumWeeks(_)
sumWeeks(phases) ==
  IF phases = << >> THEN Zero
  ELSE Add(sumWeeks(SubSeq(phases, 1, Len(phases) - 1)), phases[Len(phases)].weeks)

\* baseWeeks = Math.max(8, requirements.timelineWeeks)
createImplementationTimeline(requirements) ==
  [totalWeeks |-> sumWeeks(timelinePhases(MathMax(Num(8), requirements.timelineWeeks))),
   phases     |-> timelinePhases(MathMax(Num(8), requirements.timelineWeeks))]

risksOf(requirements, recommendations) ==
  (IF \E i \in DOMAIN recommendations :
        \E j \in DOMAIN recommendations[i].recommendedComponents :
          recommendations[i].recommendedComponents[j].component.integrationComplexity
            = "expert"
   THEN <<[type |-> "technical", level |-> "high", probability |-> Rat(7, 10)]>>
   ELSE << >>)
  \o (IF requirements.scalabilityNeeds = "distributed"
         /\ requirements.teamSize = "individual"
      THEN <<[type |-> "scalability", level |-> "medium", probability |-> Rat(6, 10)]>>
      ELSE << >>)
  \o (IF requirements.budgetRange = "minimal" /\ requirements.projectType = "production"
      THEN <<[type |-> "budget", level |-> "high", probability |-> Rat(8, 10)]>>
      ELSE << >>)
  \o (IF Len(requirements.complianceRequirements) > 2
      THEN <<[type |-> "compliance", level |-> "medium", probability |-> Rat(5, 10)]>>
      ELSE << >>)

assessRisks(requirements, recommendations) ==
  [overallRisk |-> IF Len(risksOf(requirements, recommendations)) > 2 THEN "high"
                   ELSE IF Len(risksOf(requirements, recommendations)) > 0 THEN "medium"
                   ELSE "low",
   risks       |-> risksOf(requirements, recommendations),
   mitigations |->
     <<"Start with MVP and iterate incrementally",
       "Invest in team training for complex technologies",
       "Consider managed services to reduce operational complexity",
       "Plan for compliance requirements early in the design phase">>]

\* recommendations.some(rec => rec.category === a || rec.category === b)
someCategory(recommendations, a, b) ==
  \E i \in DOMAIN recommendations :
    recommendations[i].category = a \/ recommendations[i].category = b

\* recommendations.find(rec => rec.category === 'ml-framework'), when defined
mlFrameworks(recommendations) ==
  recommendations[CHOOSE i \in DOMAIN recommendations :
                    /\ recommendations[i].category = "ml-framework"
                    /\ \A j \in 1..(i - 1) : recommendations[j].category # "ml-framework"]

generateNextSteps(requirements, recommendations) ==
  << <<"Define detailed project requirements and success metrics">> >>
  \o (IF someCategory(recommendations, "deployment", "orchestration")
      THEN << <<"Set up development and staging environments">> >>
      ELSE << >>)
  \o (IF someCategory(recommendations, "data-storage", "data-processing")
      THEN << <<"Prepare and validate your datasets">> >>
      ELSE << >>)
  \o (IF (\E i \in DOMAIN recommendations :
             recommendations[i].category = "ml-framework")
         /\ Len(mlFrameworks(recommendations).recommendedComponents) > 0
      THEN << <<"Start with ",
                mlFrameworks(recommendations).recommendedComponents[1].component.name,
                " for initial prototyping">> >>
      ELSE << >>)
  \o (IF someCategory(recommendations, "monitoring", "experiment-tracking")
      THEN << <<"Implement experiment tracking and monitoring early">> >>
      ELSE << >>)
  \o (IF requirements.teamSize # "individual"
      THEN << <<"Establish development workflows and collaboration practices">> >>
      ELSE << >>)
  \o << <<"Build a minimal viable product (MVP) first">>,
        <<"Plan for iterative improvements and scaling">> >>

\* the AIStackSuggestion built from the recommendations
stackSuggestion(requirements, recommendations) ==
  [overallScore           |-> calculateOverallScore(recommendations),
   recommendations        |-> recommendations,
   architecture           |-> determineArchitecturePattern(requirements),
   estimatedCost          |-> estimateCosts(requirements, recommendations),
   implementationTimeline |-> createImplementationTimeline(requirements),
   riskAssessment         |-> assessRisks(requirements, recommendations),
   nextSteps              |-> generateNextSteps(requirements, recommendations)]

generateStackRecommendations(STACK_COMPONENTS, requirements) ==
  Ret(stackSuggestion(
        requirements,
        generateCategoryRecommendations(
          groupComponentsByCategory(
            filterComponentsByRequirements(STACK_COMPONENTS, requirements)),
          requirements)))

\* ------------------------------------------------------------------------
\* SpecStack: generateStackRecommendations over bounded requirements and catalogs
\* ------------------------------------------------------------------------

\* components of the catalog taken into the ranking inputs
MaxCatalog == 8

\* longest requirement list drawn for the filter inputs
MaxList == 2

\* a StackComponent that passes every axis of DEFAULT_PROJECT_REQUIREMENTS
Component(id, category) ==
  [id                    |-> id,
   name                  |-> id,
   category              |-> category,
   supportedLanguages    |-> {"python", "cpp"},
   supportedUseCases     |-> {"natural-language-processing", "generative-ai"},
   scalabilitySupport    |-> {"single-machine", "multi-machine"},
   deploymentTargets     |-> {"cloud", "on-premise"},
   minBudgetRange        |-> "small",
   learningCurve         |-> "moderate",
   maturityLevel         |-> "stable",
   latencyProfile        |-> {"flexible", "batch"},
   throughputProfile     |-> {"medium", "high"},
   supportedDataTypes    |-> {"text", "images"},
   supportedDataSizes    |-> {"small", "medium"},
   complianceSupport     |-> {"none", "gdpr"},
   securityFeatures      |-> {"basic", "standard"},
   integrationComplexity |-> "moderate",
   dependencies          |-> << >>,
   popularityScore       |-> Num(7)]

\* one catalog entry per axis of the filter, each failing only that axis of
\* DEFAULT_PROJECT_REQUIREMENTS, after one that passes them all
AxisCatalog ==
  <<Component("all-axes", "ml-framework"),
    [Component("no-language", "ml-framework") EXCEPT !.supportedLanguages = {"rust"}],
    [Component("no-use-case", "ml-framework") EXCEPT
       !.supportedUseCases = {"computer-vision"}],
    [Component("no-scalability", "data-processing") EXCEPT
       !.scalabilitySupport = {"distributed"}],
    [Component("no-deployment", "deployment") EXCEPT !.deploymentTargets = {"edge"}],
    [Component("no-budget", "model-serving") EXCEPT !.minBudgetRange = "medium"],
    [Component("no-data-type", "data-storage") EXCEPT !.supportedDataTypes = {"audio"}],
    [Component("no-data-size", "data-storage") EXCEPT
       !.supportedDataSizes = {"very-large"}],
    [Component("no-compliance", "security") EXCEPT !.complianceSupport = {"hipaa"}],
    [Component("no-security", "security") EXCEPT !.securityFeatures = {"critical"}],
    [Component("both-compliances", "monitoring") EXCEPT
       !.supportedLanguages = {"python", "rust"},
       !.supportedUseCases = {"natural-language-processing", "computer-vision"},
       !.minBudgetRange = "minimal",
       !.complianceSupport = {"none", "gdpr", "hipaa"}]>>

\* a catalog with more than six entries in one category, equal scores among
\* them, a full score, and entries of other categories between them
FullCatalog ==
  <<[Component("keras", "ml-framework") EXCEPT
       !.learningCurve = "easy", !.popularityScore = Num(8)],
    [Component("vllm", "model-serving") EXCEPT
       !.integrationComplexity = "expert", !.dependencies = <<"pytorch">>,
       !.learningCurve = "expert", !.popularityScore = Num(9)],
    [Component("pytorch", "ml-framework") EXCEPT
       !.supportedLanguages = {"python", "cpp", "rust"},
       !.minBudgetRange = "minimal", !.learningCurve = "easy",
       !.maturityLevel = "mature", !.integrationComplexity = "simple",
       !.popularityScore = Num(10)],
    [Component("jax", "ml-framework") EXCEPT
       !.maturityLevel = "beta", !.learningCurve = "steep",
       !.popularityScore = Num(6)],
    [Component("tensorflow", "ml-framework") EXCEPT
       !.learningCurve = "easy", !.popularityScore = Num(8)],
    [Component("mxnet", "ml-framework") EXCEPT
       !.maturityLevel = "experimental", !.integrationComplexity = "complex",
       !.popularityScore = Num(2)],
    [Component("onnx", "ml-framework") EXCEPT
       !.latencyProfile = {"real-time"}, !.popularityScore = Num(5)],
    [Component("paddle", "ml-framework") EXCEPT
       !.throughputProfile = {"low"}, !.popularityScore = Num(4)],
    [Component("mlflow", "experiment-tracking") EXCEPT
       !.minBudgetRange = "minimal", !.popularityScore = Num(8)],
    [Component("sklearn", "ml-framework") EXCEPT
       !.maturityLevel = "mature", !.popularityScore = Num(9)]>>

\* the entries of catalog at the positions in keep, in catalog order
RECURSIVE Subsequence(_, _)
Subsequence(catalog, keep) ==
  IF catalog = << >> THEN << >>
  ELSE IF Len(catalog) \in keep
       THEN Append(Subsequence(SubSeq(catalog, 1, Len(catalog) - 1), keep),
                   catalog[Len(catalog)])
       ELSE Subsequence(SubSeq(catalog, 1, Len(catalog) - 1), keep)

RankCatalogs ==
  { Subsequence(FullCatalog, keep) :
      keep \in SUBSET (1..MinInt(MaxCatalog, Len(FullCatalog))) }

\* requirements the ranking inputs are scored against: whole and fractional match
\* scores, a budget and a compliance only some entries meet, and no language
RankRequirements ==
  {DEFAULT_PROJECT_REQUIREMENTS,
   [DEFAULT_PROJECT_REQUIREMENTS EXCEPT !.programmingLanguages = <<"python", "rust">>],
   [DEFAULT_PROJECT_REQUIREMENTS EXCEPT
      !.programmingLanguages = <<"python", "rust", "cpp">>,
      !.useCase = <<"natural-language-processing", "computer-vision">>,
      !.projectType = "research", !.budgetRange = "enterprise",
      !.latencyRequirement = "real-time", !.teamSize = "individual",
      !.timelineWeeks = Num(4)],
   [DEFAULT_PROJECT_REQUIREMENTS EXCEPT
      !.projectType = "production", !.budgetRange = "minimal",
      !.complianceRequirements = << >>, !.teamSize = "large-team",
      !.timelineWeeks = Num(20)],
   [DEFAULT_PROJECT_REQUIREMENTS EXCEPT
      !.deploymentTarget = <<"edge", "cloud">>, !.throughputRequirement = "low",
      !.complianceRequirements = <<"gdpr", "none", "gdpr">>],
   [DEFAULT_PROJECT_REQUIREMENTS EXCEPT !.programmingLanguages = << >>],
   [DEFAULT_PROJECT_REQUIREMENTS EXCEPT !.useCase = << >>]}

\* the sequences over S of length at most n
Lists(S, n) == UNION { [1..k -> S] : k \in 0..n }

\* requirements that differ from the default in the lists and the budget, or in
\* one other axis
FilterRequirements ==
  { [DEFAULT_PROJECT_REQUIREMENTS EXCEPT
       !.programmingLanguages = r[1], !.useCase = r[2],
       !.complianceRequirements = r[3], !.budgetRange = r[4]] :
      r \in Lists({"python", "rust"}, MaxList)
             \X {<< >>, <<"natural-language-processing">>, <<"computer-vision">>,
                 <<"natural-language-processing", "computer-vision">>}
             \X (Lists({"gdpr", "hipaa"}, MaxList) \cup {<<"none">>})
             \X {"minimal", "small", "medium", "large", "enterprise"} }
  \cup { [DEFAULT_PROJECT_REQUIREMENTS EXCEPT !.scalabilityNeeds = v] :
           v \in {"single-machine", "multi-machine", "distributed", "cloud-native"} }
  \cup { [DEFAULT_PROJECT_REQUIREMENTS EXCEPT !.dataSize = v] :
           v \in {"small", "medium", "large", "very-large"} }
  \cup { [DEFAULT_PROJECT_REQUIREMENTS EXCEPT !.securityLevel = v] :
           v \in {"basic", "standard", "high", "critical"} }
  \cup { [DEFAULT_PROJECT_REQUIREMENTS EXCEPT !.deploymentTarget = v] :
           v \in {<< >>, <<"edge">>, <<"mobile", "cloud">>} }
  \cup { [DEFAULT_PROJECT_REQUIREMENTS EXCEPT !.dataTypes = v] :
           v \in {<< >>, <<"audio">>, <<"audio", "text">>} }
  \cup { [DEFAULT_PROJECT_REQUIREMENTS EXCEPT
            !.deploymentTarget = r[1], !.scalabilityNeeds = r[2],
            !.teamSize = r[3], !.projectType = r[4]] :
           r \in {<<"cloud">>, <<"edge">>, <<"cloud", "mobile">>}
                  \X {"single-machine", "multi-machine", "distributed", "cloud-native"}
                  \X {"individual", "small-team", "medium-team", "large-team"}
                  \X {"prototype", "production", "research", "enterprise"} }

StackArgs ==
  { [family |-> "stack", requirements |-> r, catalog |-> c] :
      r \in RankRequirements, c \in RankCatalogs }
  \cup { [family |-> "stack", requirements |-> r, catalog |-> AxisCatalog] :
                r \in FilterRequirements }

InitStack ==
  /\ args \in StackArgs
  /\ call = "none"
  /\ ret = Ret(NoValue)
  /\ UIIdle
  /\ ComponentsIdle

CallFilterComponentsByRequirements ==
  /\ call = "none"
  /\ args.family = "stack"
  /\ call' = "filterComponentsByRequirements"
  /\ ret' = Ret(filterComponentsByRequirements(args.catalog, args.requirements))
  /\ UNCHANGED <<args, gpus, selectedGPU, modelSpecs, systemOverhead, results,
                 calculationError, componentVars>>

CallGenerateStackRecommendations ==
  /\ call = "none"
  /\ args.family = "stack"
  /\ call' = "generateStackRecommendations"
  /\ ret' = generateStackRecommendations(args.catalog, args.requirements)
  /\ UNCHANGED <<args, gpus, selectedGPU, modelSpecs, systemOverhead, results,
                 calculationError, componentVars>>

NextStack ==
  \/ CallFilterComponentsByRequirements
  \/ CallGenerateStackRecommendations

SpecStack == InitStack /\ [][NextStack]_vars

\* ------------------------------------------------------------------------
\* SpecSearch: HuggingFaceModelSearch (src/unnamed/part_000), the search field
\* ------------------------------------------------------------------------

\* most timers and searchModels calls outstanding at once
MaxPending == 2

\* texts typed into the search field
Queries == {"", " ", "a", "ab"}

\* String.prototype.trim on the texts typed
trim(text) == IF text = " " THEN "" ELSE text

\* results.models of a fulfilled searchModels(query)
modelsOf(query) == << [id |-> query] >>

\* lines 102-112: setSearchQuery and setTimeout(() => handleSearch(query), 500);
\* the function it returns goes to the caller of an onChange handler, which
\* drops it, so clearTimeout never runs
handleSearchInputChange ==
  /\ Len(timeouts) + Len(requests) < MaxPending
  /\ \E query \in Queries :
       /\ searchQuery' = query
       /\ timeouts' = Append(timeouts, query)
  /\ UNCHANGED <<searchResults, isSearching, searchError, requests>>
  /\ UNCHANGED <<engineVars, uiVars, finderVars, matrixVars>>

\* lines 51-61: the oldest timer fires and handleSearch runs up to its await
handleSearch ==
  /\ timeouts # << >>
  /\ timeouts' = Tail(timeouts)
  /\ IF trim(Head(timeouts)) = ""
     THEN /\ searchResults' = << >>
          /\ UNCHANGED <<isSearching, searchError, requests>>
     ELSE /\ isSearching' = TRUE
          /\ searchError' = ""
          /\ requests' = Append(requests, Head(timeouts))
          /\ UNCHANGED searchResults
  /\ UNCHANGED searchQuery
  /\ UNCHANGED <<engineVars, uiVars, finderVars, matrixVars>>

\* lines 61-75: a searchModels call settles, in any order, and handleSearch
\* resumes: try, catch, finally
handleSearchResumed ==
  /\ \E i \in DOMAIN requests, fulfilled \in BOOLEAN :
       /\ requests' = SubSeq(requests, 1, i - 1) \o SubSeq(requests, i + 1, Len(requests))
       /\ IF fulfilled
          THEN /\ searchResults' = modelsOf(requests[i])
               /\ UNCHANGED searchError
          ELSE /\ searchError' = "Failed to search models from Hugging Face Hub"
               /\ UNCHANGED searchResults
       /\ isSearching' = FALSE
  /\ UNCHANGED <<searchQuery, timeouts>>
  /\ UNCHANGED <<engineVars, uiVars, finderVars, matrixVars>>

NextSearch ==
  \/ handleSearchInputChange
  \/ handleSearch
  \/ handleSearchResumed

SpecSearch == Init /\ [][NextSearch]_vars

\* ------------------------------------------------------------------------
\* SpecFinder: AIStackFinder (src/src/components/AIStackFinder.tsx) with the
\* last step of StackFinderForm, where the Generate button is
\* ------------------------------------------------------------------------

\* StackFinderForm.tsx lines 187-194 on the fields of the last step
\* (isStepComplete case 4): the field and the value chosen
FinderEdits ==
  ({"budgetRange"} \X {"minimal", "small", "medium", "enterprise"})
  \cup ({"securityLevel"} \X {"standard", "critical"})

\* AIStackFinder.tsx lines 26-33, called by handleRequirementChange with
\* { ...requirements, [field]: value }
handleRequirementsChange ==
  /\ \E edit \in FinderEdits :
       finderRequirements' = [finderRequirements EXCEPT ![edit[1]] = edit[2]]
  /\ suggestions' = Null
  /\ finderError' = Null
  /\ UNCHANGED <<isGenerating, generating>>
  /\ UNCHANGED <<engineVars, uiVars, searchVars, matrixVars>>

\* AIStackFinder.tsx lines 35-41: the click (the button is disabled while
\* isGenerating, StackFinderForm.tsx line 712) up to the await of the 1500 ms
\* delay; the closure keeps the requirements of the render it was made in
handleGenerateRecommendations ==
  /\ ~isGenerating
  /\ isGenerating' = TRUE
  /\ finderError' = Null
  /\ generating' = Append(generating, finderRequirements)
  /\ UNCHANGED <<finderRequirements, suggestions>>
  /\ UNCHANGED <<engineVars, uiVars, searchVars, matrixVars>>

\* AIStackFinder.tsx lines 41-51: the delay is over; try, catch, finally
handleGenerateRecommendationsResumed ==
  /\ generating # << >>
  /\ \E newSuggestions \in {generateStackRecommendations(AxisCatalog, Head(generating))} :
       IF newSuggestions.threw
       THEN /\ finderError' = Str(newSuggestions.message)
            /\ UNCHANGED suggestions
       ELSE /\ suggestions' = newSuggestions.value
            /\ UNCHANGED finderError
  /\ isGenerating' = FALSE
  /\ generating' = Tail(generating)
  /\ UNCHANGED finderRequirements
  /\ UNCHANGED <<engineVars, uiVars, searchVars, matrixVars>>

NextFinder ==
  \/ handleRequirementsChange
  \/ handleGenerateRecommendations
  \/ handleGenerateRecommendationsResumed

SpecFinder == Init /\ [][NextFinder]_vars

\* ------------------------------------------------------------------------
\* SpecMatrix: DeviceModelMatrix (src/unnamed/part_004)
\* ------------------------------------------------------------------------

\* types/calculator.ts
DEFAULT_INFERENCE_PARAMS ==
  [batchSize |-> Num(1), promptTokens |-> Num(350), outputTokens |-> Num(150)]

\* lines 33-90; the second entry has no promptTokens
MODELS ==
  <<[name |-> "Granite 3.3 2B", shortName |-> "granite-3.3-2b",
     alpacaEvalScore |-> Rat(4345, 100),
     specs |-> [parameters |-> Num(2), sequenceLength |-> Num(131072),
                batchSize |-> DEFAULT_INFERENCE_PARAMS.batchSize,
                promptTokens |-> DEFAULT_INFERENCE_PARAMS.promptTokens,
                outputTokens |-> DEFAULT_INFERENCE_PARAMS.outputTokens,
                quantization |-> "FP16", headDimension |-> Num(64),
                nLayers |-> Num(26), nHeads |-> Num(32), nKvHeads |-> Num(32),
                hiddenSize |-> Num(2048), intermediateSize |-> Num(5632)]],
    [name |-> "Granite 3.3 8B", shortName |-> "granite-3.3-8b",
     alpacaEvalScore |-> Rat(6268, 100),
     specs |-> [parameters |-> Num(8), sequenceLength |-> Num(131072),
                batchSize |-> DEFAULT_INFERENCE_PARAMS.batchSize,
                outputTokens |-> DEFAULT_INFERENCE_PARAMS.outputTokens,
                quantization |-> "FP16", headDimension |-> Num(128),
                nLayers |-> Num(32), nHeads |-> Num(32), nKvHeads |-> Num(16),
                hiddenSize |-> Num(4096), intermediateSize |-> Num(14336)]],
    [name |-> "Gemma 3 27B", shortName |-> "gemma-3-27b",
     alpacaEvalScore |-> Rat(685, 10),
     specs |-> [parameters |-> Num(27), sequenceLength |-> Num(131072),
                batchSize |-> DEFAULT_INFERENCE_PARAMS.batchSize,
                promptTokens |-> DEFAULT_INFERENCE_PARAMS.promptTokens,
                outputTokens |-> DEFAULT_INFERENCE_PARAMS.outputTokens,
                quantization |-> "FP16", headDimension |-> Num(256),
                nLayers |-> Num(46), nHeads |-> Num(32), nKvHeads |-> Num(16),
                hiddenSize |-> Num(8192), intermediateSize |-> Num(73728)]]>>

\* lines 155-156
canRun(gpu, model) ==
  Le(Mul(model.specs.parameters, Num(2)), Mul(gpu.memorySize, Rat(3, 4)))

\* lines 170-174
modelSpecsWithCustomTokens(model, inputTokens) ==
  Spread(model.specs, [promptTokens |-> inputTokens])

\* lines 168-186: the try block
engineTimes(gpu, model, inputTokens) ==
  Ret([ttft |-> calculatePrefillTime(gpu, modelSpecsWithCustomTokens(model, inputTokens),
                                     DEFAULT_SYSTEM_OVERHEAD),
       itl  |-> calculateTimePerToken(gpu, modelSpecsWithCustomTokens(model, inputTokens),
                                      DEFAULT_SYSTEM_OVERHEAD)])

\* lines 187-201: the catch block
fallbackTimes(gpu, model, inputTokens) ==
  [ttft |-> MathMax(Num(50),
                    Div(Mul(Mul(model.specs.parameters, inputTokens), Num(2)),
                        MathMax(Mul(gpu.computeBandwidth, Num(1000)), Num(1)))),
   itl  |-> MathMax(Num(10),
                    Div(Mul(model.specs.parameters, Num(2)),
                        MathMax(gpu.memoryBandwidth, Num(1))))]

cell(gpu, model, times, runs) ==
  [deviceName |-> gpu.name, modelName |-> model.name,
   ttft |-> times.ttft, itl |-> times.itl, canRun |-> runs]

\* variant: the simplified estimates for every cell that can run
estimatePerformanceSimplified(gpu, model, inputTokens) ==
  IF ~canRun(gpu, model)
  THEN cell(gpu, model, [ttft |-> Neg(Num(1)), itl |-> Neg(Num(1))], FALSE)
  ELSE cell(gpu, model, fallbackTimes(gpu, model, inputTokens), TRUE)

\* lines 153-202
estimatePerformance(gpu, model, inputTokens) ==
  IF ~canRun(gpu, model)
  THEN cell(gpu, model, [ttft |-> Neg(Num(1)), itl |-> Neg(Num(1))], FALSE)
  ELSE IF engineTimes(gpu, model, inputTokens).threw
  THEN cell(gpu, model, fallbackTimes(gpu, model, inputTokens), TRUE)
  ELSE cell(gpu, model, engineTimes(gpu, model, inputTokens).value, TRUE)

\* gpu.price, undefined when the device has none
priceOf(gpu) == IF "price" \in DOMAIN gpu THEN gpu.price ELSE Undefined

\* lines 228-229: the devices with a price
pricedGPUs(GPUs) == SelectSeq(GPUs, LAMBDA gpu : priceOf(gpu) # Undefined)

\* lines 231-237: the values pushed for the cells that can run
performanceValues(GPUs, inputTokens, metric) ==
  { estimatePerformance(pricedGPUs(GPUs)[i], MODELS[j], inputTokens)[metric] :
      <<i, j>> \in { c \in (DOMAIN pricedGPUs(GPUs)) \X (DOMAIN MODELS) :
                       canRun(pricedGPUs(GPUs)[c[1]], MODELS[c[2]]) } }

\* Math.min(...values) and Math.max(...values) of a non-empty set
minOf(values) == CHOOSE x \in values : \A y \in values : Le(x, y)

maxOf(values) == CHOOSE x \in values : \A y \in values : Le(y, x)

\* lines 255-263 and 268-275: a range widened by 10 % to whole numbers
widened(values, fallbackMax) ==
  IF values # {}
  THEN [min |-> MathMax(Zero, MathFloor(Mul(minOf(values), Rat(9, 10)))),
        max |-> MathCeil(Mul(maxOf(values), Rat(11, 10)))]
  ELSE [min |-> Zero, max |-> Num(fallbackMax)]

\* lines 264-267: the budget range, widened to whole hundreds
budgetRangeOf(values) ==
  IF values # {}
  THEN [min |-> MathMax(Zero, Mul(MathFloor(Div(Mul(minOf(values), Rat(9, 10)), Num(100))),
                                  Num(100))),
        max |-> Mul(MathCeil(Div(Mul(maxOf(values), Rat(11, 10)), Num(100))), Num(100))]
  ELSE [min |-> Zero, max |-> Num(5000)]

\* lines 216-282: one entry of the object the useMemo on [availableGPUs,
\* filters.inputTokenCount] returns
dataRange(key, GPUs, inputTokenCount) ==
  CASE key = "ttft" ->
         widened(performanceValues(GPUs, OrElse(inputTokenCount, Num(512)), "ttft"), 10000)
    [] key = "itl" ->
         widened(performanceValues(GPUs, OrElse(inputTokenCount, Num(512)), "itl"), 1000)
    [] key = "budget" ->
         budgetRangeOf({ priceOf(pricedGPUs(GPUs)[i]) : i \in DOMAIN pricedGPUs(GPUs) })
    [] key = "alpacaEval" ->
         IF pricedGPUs(GPUs) # << >>
         THEN [min |-> MathFloor(Mul(minOf({ MODELS[j].alpacaEvalScore : j \in DOMAIN MODELS }),
                                     Rat(9, 10))),
               max |-> MathCeil(Mul(maxOf({ MODELS[j].alpacaEvalScore : j \in DOMAIN MODELS }),
                                    Rat(11, 10)))]
         ELSE [min |-> Zero, max |-> Num(100)]
    [] key = "contextLength" ->
         IF pricedGPUs(GPUs) # << >>
         THEN [min |-> minOf({ MODELS[j].specs.sequenceLength : j \in DOMAIN MODELS }),
               max |-> maxOf({ MODELS[j].specs.sequenceLength : j \in DOMAIN MODELS })]
         ELSE [min |-> Zero, max |-> Num(200000)]
    [] key = "inputToken" ->
         [min |-> Num(1), max |-> Num(8192), default |-> Num(512)]

dataRanges(GPUs, inputTokenCount) ==
  [key \in {"ttft", "itl", "budget", "alpacaEval", "contextLength", "inputToken"} |->
     dataRange(key, GPUs, inputTokenCount)]

\* one spread of the effect: the range from the data while prev is at its default
initialised(prev, low, high, range) ==
  IF prev[1] = Num(low) /\ prev[2] = Num(high) THEN <<range.min, range.max>> ELSE prev

\* variant: every range follows the data
rangeEffectResettingAll(prev, ranges) ==
  [ttftRange          |-> <<ranges.ttft.min, ranges.ttft.max>>,
   itlRange           |-> <<ranges.itl.min, ranges.itl.max>>,
   budgetRange        |-> <<ranges.budget.min, ranges.budget.max>>,
   alpacaEvalRange    |-> <<ranges.alpacaEval.min, ranges.alpacaEval.max>>,
   contextLengthRange |-> <<ranges.contextLength.min, ranges.contextLength.max>>,
   inputTokenCount    |-> prev.inputTokenCount]

\* lines 284-297: the effect on [dataRanges]
rangeEffect(prev, ranges) ==
  [ttftRange          |-> <<ranges.ttft.min, ranges.ttft.max>>,
   itlRange           |-> initialised(prev.itlRange, 0, 1000, ranges.itl),
   budgetRange        |-> initialised(prev.budgetRange, 0, 5000, ranges.budget),
   alpacaEvalRange    |-> initialised(prev.alpacaEvalRange, 0, 100, ranges.alpacaEval),
   contextLengthRange |->
     initialised(prev.contextLengthRange, 0, 200000, ranges.contextLength),
   inputTokenCount    |-> IF prev.inputTokenCount = Num(512)
                          THEN ranges.inputToken.default
                          ELSE prev.inputTokenCount]

\* lines 327-339, on the filters of the state
checkCellMatch(performance, devicePrice) ==
  /\ performance.canRun
  /\ Ge(performance.ttft, filters.ttftRange[1]) /\ Le(performance.ttft, filters.ttftRange[2])
  /\ Ge(performance.itl, filters.itlRange[1]) /\ Le(performance.itl, filters.itlRange[2])
  /\ \/ devicePrice = Undefined
     \/ ~Truthy(devicePrice)
     \/ Ge(devicePrice, filters.budgetRange[1]) /\ Le(devicePrice, filters.budgetRange[2])

\* the devices the component is given
MatrixGPU(name, compute, bandwidth, memory) ==
  [name |-> name, computeBandwidth |-> Num(compute), memoryBandwidth |-> Num(bandwidth),
   memorySize |-> Num(memory)]

MatrixGPULists ==
  { << Spread(MatrixGPU("Large", 1000, 3000, 80), [price |-> Num(29999)]),
       Spread(MatrixGPU("Small", 100, 500, 16), [price |-> Num(1999)]),
       MatrixGPU("Unpriced", 50, 200, 8) >>,
    << Spread(MatrixGPU("Tiny", 10, 100, 4), [price |-> Num(249)]),
       MatrixGPU("Unpriced", 50, 200, 8) >> }

\* the slider of a range field and its bounds (lines 418-497)
RangeFields ==
  [ttftRange |-> "ttft", itlRange |-> "itl", budgetRange |-> "budget",
   alpacaEvalRange |-> "alpacaEval", contextLengthRange |-> "contextLength"]

\* the pairs a range slider with these bounds delivers: both thumbs at the
\* lower end
SliderPairs(bounds) == { <<bounds.min, bounds.min>> }

\* the values the input token slider delivers (lines 507-513): its ends and
\* its default
TokenCounts == { Num(1), Num(512), Num(8192) }

\* the availableGPUs prop goes from [] to the loaded devices; dataRanges is
\* recomputed and the effect runs
GPUsLoaded ==
  /\ availableGPUs = << >>
  /\ \E GPUs \in MatrixGPULists :
       /\ availableGPUs' = GPUs
       /\ filters' = rangeEffect(filters, dataRanges(GPUs, filters.inputTokenCount))
  /\ UNCHANGED <<engineVars, uiVars, searchVars, finderVars>>

\* lines 341-360 on a range slider: dataRanges keeps its value, no effect runs
handleSliderChange ==
  /\ \E field \in DOMAIN RangeFields :
       \E newValue \in SliderPairs(dataRange(RangeFields[field], availableGPUs,
                                             filters.inputTokenCount)) :
         filters' = [filters EXCEPT ![field] = newValue]
  /\ UNCHANGED availableGPUs
  /\ UNCHANGED <<engineVars, uiVars, searchVars, finderVars>>

\* lines 341-349 on the input token slider; a new count recomputes dataRanges
\* and the effect runs
handleTokenSliderChange ==
  /\ \E newValue \in TokenCounts :
       filters' = IF newValue = filters.inputTokenCount
                  THEN filters
                  ELSE rangeEffect([filters EXCEPT !.inputTokenCount = newValue],
                                   dataRanges(availableGPUs, newValue))
  /\ UNCHANGED availableGPUs
  /\ UNCHANGED <<engineVars, uiVars, searchVars, finderVars>>

NextMatrix ==
  \/ GPUsLoaded
  \/ handleSliderChange
  \/ handleTokenSliderChange

SpecMatrix == Init /\ [][NextMatrix]_vars

\* lines 300-312: the useMemo on [availableGPUs, filters.inputTokenCount]
performanceMatrix(i, j) ==
  estimatePerformance(availableGPUs[i], MODELS[j], filters.inputTokenCount)

\* ------------------------------------------------------------------------
\* SpecHub: utils/huggingface.ts, loading a model preset from the Hub
\* ------------------------------------------------------------------------

\* Number(value) on what a parsed JSON document holds: a number, a string, or
\* nothing (undefined)
Number(value) ==
  IF "text" \in DOMAIN value
  THEN CASE value.text = "" -> Zero
         [] value.text = "0" -> Zero
         [] value.text = "16000000000" -> Mul(Num(16), Num(1000000000))
         [] OTHER -> NaN
  ELSE IF value.k = "undef" THEN NaN ELSE value

\* the truthiness of a JSON number or string, or of nothing
TruthyValue(value) ==
  IF "text" \in DOMAIN value THEN value.text # "" ELSE Truthy(value)

\* !isNaN(x) && isFinite(x) && x > 0
IsValidCount(x) == ~IsNaN(x) /\ IsFinite(x) /\ Gt(x, Zero)

\* torchDtype.toLowerCase().includes(part), on the dtype names the configs carry
includes(torchDtype, part) ==
  <<torchDtype.text, part>> \in { <<"float32", "float32">>, <<"bfloat16", "float16">>,
                            <<"bfloat16", "bfloat16">>, <<"int8", "int8">>,
                            <<"int4", "int4">> }

\* lines 197-207
getBytesPerParameter(torchDtype) ==
  IF ~TruthyValue(torchDtype) THEN Num(2)
  ELSE IF includes(torchDtype, "float32") \/ includes(torchDtype, "fp32") THEN Num(4)
  ELSE IF includes(torchDtype, "float16") \/ includes(torchDtype, "fp16")
          \/ includes(torchDtype, "bfloat16") \/ includes(torchDtype, "bf16")
       THEN Num(2)
  ELSE IF includes(torchDtype, "int8") THEN Num(1)
  ELSE IF includes(torchDtype, "int4") THEN Rat(1, 2)
  ELSE Num(2)

\* lines 224-230: null, or the count in billions
validateParamCount(value) ==
  IF ~IsValidCount(Number(value)) THEN Null
  ELSE Div(Number(value), Num(1000000000))

\* lines 297-319, on the four sizes of lines 290-293
estimatedBillions(hidden_size, intermediate_size, num_hidden_layers, vocab_size) ==
  Div(Add(Add(Add(Mul(vocab_size, hidden_size),
                  Mul(num_hidden_layers,
                      Add(Mul(Mul(Num(4), hidden_size), hidden_size), hidden_size))),
              Mul(num_hidden_layers,
                  Add(Mul(Mul(hidden_size, intermediate_size), Num(2)), hidden_size))),
          hidden_size),
      Num(1000000000))

\* lines 288-320
estimateParametersFromArchitecture(config) ==
  IF IsValidCount(estimatedBillions(
       MathMax(OrElse(Number(config.hidden_size), Num(4096)), Num(1)),
       MathMax(OrElse(Number(config.intermediate_size), Num(11008)), Num(1)),
       MathMax(OrElse(Number(config.num_hidden_layers), Num(32)), Num(1)),
       MathMax(OrElse(Number(config.vocab_size), Num(32000)), Num(1))))
  THEN estimatedBillions(
       MathMax(OrElse(Number(config.hidden_size), Num(4096)), Num(1)),
       MathMax(OrElse(Number(config.intermediate_size), Num(11008)), Num(1)),
       MathMax(OrElse(Number(config.num_hidden_layers), Num(32)), Num(1)),
       MathMax(OrElse(Number(config.vocab_size), Num(32000)), Num(1)))
  ELSE Num(7)

\* lines 232-242: the counts the safetensors metadata offers, in the order tried
metadataCounts(safetensorsIndex) ==
  IF safetensorsIndex # Null /\ safetensorsIndex.metadata # Undefined
  THEN << safetensorsIndex.metadata.num_params, safetensorsIndex.metadata.total_params,
          safetensorsIndex.metadata.parameters >>
  ELSE << >>

\* lines 244-252
configCounts(config) ==
  << config.num_parameters, config.total_params, config["_num_parameters"] >>

\* lines 254-270: a section of the model info is tried only when it is there and
\* its parameters field is truthy
modelInfoCounts(modelInfo) ==
  IF modelInfo = Null THEN << >>
  ELSE SelectSeq(<< modelInfo.safetensors, modelInfo.pytorch_model,
                    modelInfo.transformersInfo >>,
                 LAMBDA parameters : TruthyValue(parameters))

\* the first count of the list that validateParamCount accepts; lines 272-282
\* when there is none
RECURSIVE firstValidCount(_, _)
firstValidCount(counts, config) ==
  IF counts = << >>
  THEN IF IsValidCount(estimateParametersFromArchitecture(config))
       THEN estimateParametersFromArchitecture(config)
       ELSE Num(7)
  ELSE IF validateParamCount(Head(counts)) # Null
       THEN validateParamCount(Head(counts))
       ELSE firstValidCount(Tail(counts), config)

\* lines 210-213: the safetensors total_size is there and is a usable size
hasTotalSize(safetensorsIndex) ==
  /\ safetensorsIndex # Null
  /\ safetensorsIndex.metadata # Undefined
  /\ TruthyValue(safetensorsIndex.metadata.total_size)
  /\ IsValidCount(Number(safetensorsIndex.metadata.total_size))

\* lines 192-283
getModelParameters(config, safetensorsIndex, modelInfo) ==
  IF hasTotalSize(safetensorsIndex)
  THEN Div(Div(Number(safetensorsIndex.metadata.total_size),
               getBytesPerParameter(config.torch_dtype)),
           Num(1000000000))
  ELSE firstValidCount(metadataCounts(safetensorsIndex) \o configCounts(config)
                         \o modelInfoCounts(modelInfo),
                       config)

\* lines 325-337
getQuantizationFromTorchDtype(config) ==
  IF ~TruthyValue(config.torch_dtype) THEN "FP16"
  ELSE IF includes(config.torch_dtype, "float32") \/ includes(config.torch_dtype, "fp32")
       THEN "FP32"
  ELSE IF includes(config.torch_dtype, "float16") \/ includes(config.torch_dtype, "fp16")
          \/ includes(config.torch_dtype, "bfloat16")
          \/ includes(config.torch_dtype, "bf16")
       THEN "FP16"
  ELSE IF includes(config.torch_dtype, "int8") THEN "INT8"
  ELSE IF includes(config.torch_dtype, "int4") THEN "INT4"
  ELSE "FP16"

\* lines 344-347
safeNumber(value, defaultValue) ==
  IF ~IsValidCount(Number(value)) THEN defaultValue ELSE Number(value)

\* lines 342-383
configToModelPreset(modelId, config, safetensorsIndex, modelInfo) ==
  [name |-> modelId,
   parameters |-> getModelParameters(config, safetensorsIndex, modelInfo),
   sequenceLength |-> safeNumber(config.max_position_embeddings, Num(4096)),
   headDimension |-> Div(safeNumber(config.hidden_size, Num(4096)),
                         safeNumber(config.num_attention_heads, Num(32))),
   nLayers |-> safeNumber(config.num_hidden_layers, Num(32)),
   nHeads |-> safeNumber(config.num_attention_heads, Num(32)),
   nKvHeads |-> safeNumber(config.num_key_value_heads,
                           safeNumber(config.num_attention_heads, Num(32))),
   hiddenSize |-> safeNumber(config.hidden_size, Num(4096)),
   intermediateSize |-> safeNumber(config.intermediate_size,
                                   Mul(safeNumber(config.hidden_size, Num(4096)), Num(4))),
   defaultQuantization |-> getQuantizationFromTorchDtype(config)]

\* lines 99-117: response is what downloadFile delivered for config.json, parsed,
\* or Null when it delivered nothing or failed
loadModelConfig(modelId, response) ==
  IF response = Null THEN Throw("Failed to load configuration for model " \o modelId)
  ELSE Ret(response)

\* lines 141-159: the same for model.safetensors.index.json
loadSafetensorsIndex(modelId, response) ==
  IF response = Null THEN Throw("Failed to load index for model " \o modelId)
  ELSE Ret(response)

\* lines 164-186: response is the body of the model-info API answer, or Null when
\* the answer was not ok or the fetch failed
loadModelInfo(modelId, response) == Ret(response)

\* lines 388-402: the outcomes of the load. Promise.all rejects with whichever
\* rejection comes first, so two failed downloads leave either error
loadModelFromHub(modelId, responses) ==
  IF loadModelConfig(modelId, responses.config).threw
     \/ loadSafetensorsIndex(modelId, responses.index).threw
  THEN { outcome \in { loadModelConfig(modelId, responses.config),
                       loadSafetensorsIndex(modelId, responses.index) } :
           outcome.threw }
  ELSE { Ret(configToModelPreset(
               modelId,
               loadModelConfig(modelId, responses.config).value,
               loadSafetensorsIndex(modelId, responses.index).value,
               loadModelInfo(modelId, responses.info).value)) }

\* a config.json with no field set
EmptyConfig ==
  ("_num_parameters" :> Undefined) @@
  [torch_dtype |-> Undefined, num_parameters |-> Undefined, total_params |-> Undefined,
   hidden_size |-> Undefined, intermediate_size |-> Undefined,
   num_hidden_layers |-> Undefined, vocab_size |-> Undefined,
   max_position_embeddings |-> Undefined, num_attention_heads |-> Undefined,
   num_key_value_heads |-> Undefined]

HubConfigs ==
  { EmptyConfig,
    [EmptyConfig EXCEPT !.torch_dtype = Str("float32"), !.hidden_size = Num(64),
                        !.intermediate_size = Num(256), !.num_hidden_layers = Num(2),
                        !.vocab_size = Num(1000), !.num_attention_heads = Num(4)],
    [EmptyConfig EXCEPT !.torch_dtype = Str("bfloat16"),
                        !.num_parameters = Mul(Num(7), Num(1000000000))],
    [EmptyConfig EXCEPT !.torch_dtype = Str("int4"), !.total_params = Num(-1),
                        !["_num_parameters"] = Mul(Num(3), Num(1000000000))],
    [EmptyConfig EXCEPT !.torch_dtype = Str("int8"), !.hidden_size = Zero,
                        !.num_parameters = Str("abc")] }

\* the metadata of a model.safetensors.index.json
HubMetadata(total_size, num_params, parameters) ==
  [total_size |-> total_size, num_params |-> num_params, total_params |-> Undefined,
   parameters |-> parameters]

HubIndexes ==
  { [metadata |-> Undefined],
    [metadata |-> HubMetadata(Str("16000000000"), Num(5), Undefined)],
    [metadata |-> HubMetadata(Str("abc"), Mul(Num(8), Num(1000000000)), Undefined)],
    [metadata |-> HubMetadata(Str("0"), Zero, Mul(Num(2), Num(1000000000)))],
    [metadata |-> HubMetadata(Undefined, Undefined, Undefined)] }

\* the parameters fields of the three sections of a model info; a section that is
\* missing has none
HubInfos ==
  { [safetensors |-> Undefined, pytorch_model |-> Undefined,
     transformersInfo |-> Undefined],
    [safetensors |-> Num(1000000000), pytorch_model |-> Undefined,
     transformersInfo |-> Undefined],
    [safetensors |-> Num(-1), pytorch_model |-> Undefined,
     transformersInfo |-> Num(500000000)] }

HubArgs ==
  { [family |-> "hub", modelId |-> "org/model",
     responses |-> [config |-> c, index |-> i, info |-> m]] :
      c \in {Null} \cup HubConfigs, i \in {Null} \cup HubIndexes,
      m \in {Null} \cup HubInfos }

InitHub ==
  /\ args \in HubArgs
  /\ call = "none"
  /\ ret = Ret(NoValue)
  /\ UIIdle
  /\ ComponentsIdle

CallLoadModelFromHub ==
  /\ call = "none"
  /\ args.family = "hub"
  /\ call' = "loadModelFromHub"
  /\ ret' \in loadModelFromHub(args.modelId, args.responses)
  /\ UNCHANGED <<args, gpus, selectedGPU, modelSpecs, systemOverhead, results,
                 calculationError, componentVars>>

\* configToModelPreset is exported too; its config is a fetched one
CallConfigToModelPreset ==
  /\ call = "none"
  /\ args.family = "hub"
  /\ args.responses.config # Null
  /\ call' = "configToModelPreset"
  /\ ret' = Ret(configToModelPreset(args.modelId, args.responses.config,
                                    args.responses.index, args.responses.info))
  /\ UNCHANGED <<args, gpus, selectedGPU, modelSpecs, systemOverhead, results,
                 calculationError, componentVars>>

NextHub ==
  \/ CallLoadModelFromHub
  \/ CallConfigToModelPreset

SpecHub == InitHub /\ [][NextHub]_vars

\* ------------------------------------------------------------------------
\* Properties
\* ------------------------------------------------------------------------

\* an architecture field that carries a usable value
Present(x) == IsFinite(x) /\ Sign(x) > 0

\* every architecture field of the model is either missing or usable
MissingOrPresent(model) ==
  \A f \in ArchFields : model[f] = Undefined \/ Present(model[f])

SomeFieldMissing(model) ==
  \/ model.headDimension = Undefined
  \/ model.hiddenSize = Undefined
  \/ model.intermediateSize = Undefined
  \/ model.nLayers = Undefined
  \/ (model.nKvHeads = Undefined /\ model.nHeads = Undefined)

\* the lower-layer message for the first missing field, in evaluation order
FirstMissingMessage(model) ==
  IF model.headDimension = Undefined
  THEN "Model architecture missing: headDimension is required for arithmetic intensity calculation"
  ELSE IF model.hiddenSize = Undefined
  THEN "Model architecture missing: hiddenSize is required for activation memory calculation"
  ELSE IF model.intermediateSize = Undefined
  THEN "Model architecture missing: intermediateSize is required for activation memory calculation"
  ELSE IF model.nLayers = Undefined
  THEN "Model architecture missing: nLayers is required for KV cache calculation"
  ELSE "Model architecture missing: nKvHeads or nHeads is required for KV cache calculation"

\* C1: calculatePerformance on a model with a missing required architecture field
\* returns nothing and throws "Performance calculation failed: " followed by the
\* lower-layer message of the first missing field in the order headDimension,
\* hiddenSize, intermediateSize, nLayers, nKvHeads/nHeads; with nothing missing
\* it returns a result.
C1_MissingFieldFails ==
  (call = "calculatePerformance" /\ MissingOrPresent(args.model)) =>
     IF SomeFieldMissing(args.model)
     THEN /\ ret.threw
          /\ ret.value = NoValue
          /\ ret.message =
               "Performance calculation failed: " \o FirstMissingMessage(args.model)
     ELSE ~ret.threw

\* hiddenSize and nLayers are both missing: the error names hiddenSize
C1_Witness ==
  /\ call = "calculatePerformance"
  /\ MissingOrPresent(args.model)
  /\ Present(args.model.headDimension)
  /\ args.model.hiddenSize = Undefined
  /\ args.model.nLayers = Undefined
  /\ ret.threw
  /\ ret.message = "Performance calculation failed: Model architecture missing: hiddenSize is required for activation memory calculation"

\* C2: in AIModelCalculator, results and calculationError are never both set;
\* stored results are always the result of a successful evaluation of the current
\* inputs, so a failed evaluation leaves results = null until an evaluation
\* succeeds; a stored error is the message of the failed evaluation of the
\* current inputs.
C2_NoNumbersFromFailedEvaluation ==
  /\ ~(results # Null /\ calculationError # Null)
  /\ (selectedGPU = Null \/ modelSpecs = Null) =>
       (results = Null /\ calculationError = Null)
  /\ (selectedGPU # Null /\ modelSpecs # Null) =>
       \A outcome \in {calculatePerformance(selectedGPU, modelSpecs, systemOverhead)} :
         /\ outcome.threw => (results = Null /\ ~ResultsShown)
         /\ ~outcome.threw => (results = outcome.value /\ calculationError = Null)
         /\ calculationError # Null =>
              (outcome.threw /\ calculationError = Str(outcome.message))

\* a failed evaluation: the error is stored and the results are cleared
C2_Witness ==
  /\ selectedGPU # Null
  /\ modelSpecs # Null
  /\ results = Null
  /\ calculationError # Null
  /\ calculatePerformance(selectedGPU, modelSpecs, systemOverhead).threw

\* C3: determineBottleneck on a finite, non-negative (opsToByteRatio,
\* arithmeticIntensity) pair sets exactly one of isMemoryBound and isComputeBound;
\* isMemoryBound holds iff arithmeticIntensity < opsToByteRatio; equal values are
\* compute-bound.
C3_BottleneckExclusive ==
  (/\ call = "determineBottleneck"
   /\ IsFinite(args.a) /\ Sign(args.a) >= 0
   /\ IsFinite(args.b) /\ Sign(args.b) >= 0) =>
     /\ ret.value.isMemoryBound # ret.value.isComputeBound
     /\ ret.value.isMemoryBound <=> Lt(args.b, args.a)
     /\ args.a = args.b => (ret.value.isComputeBound /\ ~ret.value.isMemoryBound)

\* intensity equal to the ratio (1000/3 each): compute-bound
C3_Witness ==
  /\ call = "determineBottleneck"
  /\ args.a = Rat(1000, 3)
  /\ args.b = Rat(1000, 3)
  /\ ret.value.isComputeBound
  /\ ~ret.value.isMemoryBound

\* the leading text of a warning message; "" when there is no message
WarningKind(message) == IF Len(message) = 0 THEN "" ELSE message[1]

\* utilization in percent, before any capping
UncappedUtilization(total, capacity) == Mul(Div(total, capacity), Num(100))

\* C4: checkMemoryFit picks its warning by first match: total memory above the
\* GPU capacity gives the overflow ("Shortfall") message, never the high or
\* moderate one; otherwise utilization > 90 gives the high-usage message;
\* otherwise utilization > 80 gives the moderate message; otherwise
\* hasMemoryWarning is false and there is no message.
C4_WarningPrecedence ==
  (call = "checkMemoryFit" /\ ~ret.threw) =>
     IF Gt(ret.value.totalMemoryUsedGB, args.gpu.memorySize)
     THEN /\ ret.value.hasMemoryWarning
          /\ WarningKind(ret.value.memoryWarningMessage) = "Model requires "
          /\ ret.value.memoryWarningMessage[5] = "GB. Shortfall: "
     ELSE IF Gt(UncappedUtilization(ret.value.totalMemoryUsedGB, args.gpu.memorySize),
                Num(90))
     THEN /\ ret.value.hasMemoryWarning
          /\ WarningKind(ret.value.memoryWarningMessage) = "High memory usage ("
     ELSE IF Gt(UncappedUtilization(ret.value.totalMemoryUsedGB, args.gpu.memorySize),
                Num(80))
     THEN /\ ret.value.hasMemoryWarning
          /\ WarningKind(ret.value.memoryWarningMessage) = "Moderate memory usage ("
     ELSE /\ ~ret.value.hasMemoryWarning
          /\ Len(ret.value.memoryWarningMessage) = 0

\* an overflow whose utilization is also above 90: the overflow message is given
C4_Witness ==
  /\ call = "checkMemoryFit"
  /\ ~ret.threw
  /\ IsFinite(ret.value.totalMemoryUsedGB)
  /\ Gt(ret.value.totalMemoryUsedGB, args.gpu.memorySize)
  /\ Gt(UncappedUtilization(ret.value.totalMemoryUsedGB, args.gpu.memorySize), Num(90))
  /\ ret.value.hasMemoryWarning
  /\ WarningKind(ret.value.memoryWarningMessage) = "Model requires "

\* a workload whose context length, batch size and head dimension are ordinary
\* numbers: N >= 0, batchSize >= 0, headDimension > 0
OrdinaryWorkload(model) ==
  /\ IsFinite(model.sequenceLength) /\ Sign(model.sequenceLength) >= 0
  /\ IsFinite(model.batchSize) /\ Sign(model.batchSize) >= 0
  /\ Present(model.headDimension)

\* C5: whenever calculateArithmeticIntensity does not throw (any context length
\* N including 0, any batch size, any quantization) its value is at least 0.1,
\* and for the other inputs fixed it does not decrease when batchSize grows.
C5_IntensityAtLeastFloor ==
  (/\ call = "calculateArithmeticIntensity"
   /\ OrdinaryWorkload(args.model)
   /\ ~ret.threw) =>
     /\ Ge(ret.value, Rat(1, 10))
     /\ \A b \in 0..MaxBatch :
          Ge(Num(b), args.model.batchSize) =>
            Ge(calculateArithmeticIntensity([args.model EXCEPT !.batchSize = Num(b)]).value,
               ret.value)

\* C6: calculateThroughput returns totalTokens / totalTime * 1000, and exactly 0
\* when totalTime is 0, whatever totalTokens is.
C6_ThroughputDefinedAtZero ==
  (call = "calculateThroughput") =>
     /\ IsZero(args.a) => ret.value = Zero
     /\ (IsFinite(args.a) /\ ~IsZero(args.a) /\ IsFinite(args.b)) =>
          (IsFinite(ret.value) /\ Mul(ret.value, args.a) = Mul(args.b, Num(1000)))

\* totalTime 0 with 3 tokens: throughput 0
C6_Witness ==
  /\ call = "calculateThroughput"
  /\ args.a = Zero
  /\ args.b = Num(3)
  /\ ret.value = Zero

\* overheads whose efficiency is in the admitted range, 1 to 200 percent
ValidOverheads ==
  { [systemEfficiencyPercent |-> Num(e)] : e \in { x \in Efficiencies : 1 <= x /\ x <= 200 } }

\* promptTokens * parameters * 1e9 * 2 * 1000 / (compute FLOPs * computeMultiplier)
BasePrefillMs(gpu, model) ==
  Div(Mul(Mul(Mul(Mul(model.promptTokens, model.parameters), Pow10(9)), Num(2)), Num(1000)),
      Mul(Mul(gpu.computeBandwidth, Pow10(12)),
          getQuantizationInfo(model.quantization).computeMultiplier))

\* model size in bytes * 1000 / memory bandwidth in bytes per second
BaseDecodeMs(gpu, model) ==
  Div(Mul(Mul(Mul(model.parameters, Pow10(9)),
              getQuantizationInfo(model.quantization).bytesPerParameter),
          Num(1000)),
      Mul(gpu.memoryBandwidth, Pow10(9)))

\* the overhead argument is absent, or its efficiency is 100
Undampened(overhead) ==
  IF "systemEfficiencyPercent" \in DOMAIN overhead
  THEN overhead.systemEfficiencyPercent = Num(100)
  ELSE overhead = Undefined

\* C7: for a fixed GPU and model and valid efficiencies e1 < e2,
\* calculatePrefillTime and calculateTimePerToken give latency(e1) >= latency(e2);
\* with efficiency 100, or no overhead argument, they give the base time exactly.
C7_EfficiencyDerating ==
  /\ call = "calculatePrefillTime" =>
       /\ Undampened(args.systemOverhead) =>
            ret.value = BasePrefillMs(args.gpu, args.model)
       /\ args.systemOverhead \in ValidOverheads =>
            \A o \in ValidOverheads :
              Lt(args.systemOverhead.systemEfficiencyPercent, o.systemEfficiencyPercent) =>
                Ge(ret.value, calculatePrefillTime(args.gpu, args.model, o))
  /\ call = "calculateTimePerToken" =>
       /\ Undampened(args.systemOverhead) =>
            ret.value = BaseDecodeMs(args.gpu, args.model)
       /\ args.systemOverhead \in ValidOverheads =>
            \A o \in ValidOverheads :
              Lt(args.systemOverhead.systemEfficiencyPercent, o.systemEfficiencyPercent) =>
                Ge(ret.value, calculateTimePerToken(args.gpu, args.model, o))

\* efficiency 50 on a 350-token prompt: twice the base prefill time
C7_Witness ==
  /\ call = "calculatePrefillTime"
  /\ args.systemOverhead = [systemEfficiencyPercent |-> Num(50)]
  /\ args.model.promptTokens = Num(350)
  /\ ~IsZero(ret.value)
  /\ ret.value = Mul(Num(2), BasePrefillMs(args.gpu, args.model))
  /\ Gt(ret.value, calculatePrefillTime(args.gpu, args.model, DEFAULT_SYSTEM_OVERHEAD))

\* undefined, NaN, +Infinity or -Infinity
MissingOrNonFinite(x) == ~IsFinite(x)

MissingFieldErrors ==
  { "Performance calculation failed: Model architecture missing: headDimension is required for arithmetic intensity calculation",
    "Performance calculation failed: Model architecture missing: headDimension is required for KV cache calculation",
    "Performance calculation failed: Model architecture missing: hiddenSize is required for activation memory calculation",
    "Performance calculation failed: Model architecture missing: intermediateSize is required for activation memory calculation",
    "Performance calculation failed: Model architecture missing: nLayers is required for KV cache calculation",
    "Performance calculation failed: Model architecture missing: nKvHeads or nHeads is required for KV cache calculation" }

\* C8: a required architecture field (headDimension, nLayers, hiddenSize,
\* intermediateSize, or both of nKvHeads and nHeads) that is undefined, NaN,
\* +Infinity or -Infinity makes calculatePerformance fail with the missing-field
\* error instead of computing a result from it.
C8_NonFiniteTreatedAsAbsent ==
  (/\ call = "calculatePerformance"
   /\ \/ MissingOrNonFinite(args.model.headDimension)
      \/ MissingOrNonFinite(args.model.nLayers)
      \/ MissingOrNonFinite(args.model.hiddenSize)
      \/ MissingOrNonFinite(args.model.intermediateSize)
      \/ (MissingOrNonFinite(args.model.nKvHeads) /\ MissingOrNonFinite(args.model.nHeads))) =>
     (ret.threw /\ ret.message \in MissingFieldErrors)

\* m = floor(y / x) for x > 0
IsFloorOf(m, y, x) ==
  /\ IsFinite(m)
  /\ MathFloor(m) = m
  /\ Le(Mul(m, x), y)
  /\ Lt(y, Mul(Add(m, Num(1)), x))

FiniteArchitecture(model) == \A f \in ArchFields : IsFinite(model[f])

\* C9: checkMemoryFit gives freeMemoryForKVCache = max(0, capacity - (modelSize +
\* overhead + activation)), never negative; maxKVCacheTokens = floor(free /
\* perTokenKV), and 0 when perTokenKV is not positive; maxBatchSize =
\* floor(maxKVCacheTokens / (promptTokens + outputTokens)), and 0 when that length
\* is 0; both are finite and not negative.
C9_CapacityFigures ==
  (call = "checkMemoryFit" /\ ~ret.threw /\ FiniteArchitecture(args.model)) =>
     /\ ret.value.freeMemoryForKVCacheGB =
          MathMax(Zero,
                  Sub(args.gpu.memorySize,
                      Add(Add(ret.value.modelSizeGB, ret.value.systemOverheadGB),
                          ret.value.activationMemoryGB)))
     /\ Ge(ret.value.freeMemoryForKVCacheGB, Zero)
     /\ IF Gt(ret.value.kvCachePerTokenGB, Zero)
        THEN IsFloorOf(ret.value.maxKVCacheTokens, ret.value.freeMemoryForKVCacheGB,
                       ret.value.kvCachePerTokenGB)
        ELSE ret.value.maxKVCacheTokens = Zero
     /\ IF IsZero(Add(args.model.promptTokens, args.model.outputTokens))
        THEN ret.value.maxBatchSize = Zero
        ELSE IsFloorOf(ret.value.maxBatchSize, ret.value.maxKVCacheTokens,
                       Add(args.model.promptTokens, args.model.outputTokens))
     /\ IsFinite(ret.value.maxKVCacheTokens) /\ Sign(ret.value.maxKVCacheTokens) >= 0
     /\ IsFinite(ret.value.maxBatchSize) /\ Sign(ret.value.maxBatchSize) >= 0

\* no prompt and no output tokens while the cache has room: maxBatchSize is 0
C9_Witness ==
  /\ call = "checkMemoryFit"
  /\ ~ret.threw
  /\ FiniteArchitecture(args.model)
  /\ IsZero(Add(args.model.promptTokens, args.model.outputTokens))
  /\ Gt(ret.value.maxKVCacheTokens, Zero)
  /\ ret.value.maxBatchSize = Zero

\* the warning the uncapped figures call for
ExpectedWarningKind(total, capacity) ==
  IF Gt(total, capacity) THEN "Model requires "
  ELSE IF Gt(UncappedUtilization(total, capacity), Num(90)) THEN "High memory usage ("
  ELSE IF Gt(UncappedUtilization(total, capacity), Num(80)) THEN "Moderate memory usage ("
  ELSE ""

\* C10: the memoryUtilization returned by checkMemoryFit is
\* min(100 * totalMemory / capacity, 999) and so never above 999, while the
\* warning is the one the uncapped total and utilization call for.
C10_UtilizationCappedForDisplay ==
  (call = "checkMemoryFit" /\ ~ret.threw) =>
     /\ ret.value.memoryUtilization =
          (IF Gt(UncappedUtilization(ret.value.totalMemoryUsedGB, args.gpu.memorySize),
                 Num(999))
           THEN Num(999)
           ELSE UncappedUtilization(ret.value.totalMemoryUsedGB, args.gpu.memorySize))
     /\ ~Gt(ret.value.memoryUtilization, Num(999))
     /\ WarningKind(ret.value.memoryWarningMessage) =
          ExpectedWarningKind(ret.value.totalMemoryUsedGB, args.gpu.memorySize)

\* a 1 GB device: utilization above 999 is returned as 999 with the overflow message
C10_Witness ==
  /\ call = "checkMemoryFit"
  /\ ~ret.threw
  /\ args.gpu.memorySize = Num(1)
  /\ IsFinite(ret.value.totalMemoryUsedGB)
  /\ Gt(UncappedUtilization(ret.value.totalMemoryUsedGB, args.gpu.memorySize), Num(999))
  /\ ret.value.memoryUtilization = Num(999)
  /\ WarningKind(ret.value.memoryWarningMessage) = "Model requires "

\* nKvHeads when present, nHeads otherwise
ExpectedKVHeads(model) ==
  IF Present(model.nKvHeads) THEN model.nKvHeads ELSE model.nHeads

\* 2 * nLayers * kvHeads * headDimension * bytesPerParameter, in GB
ExpectedPerTokenKVGB(model) ==
  Div(Mul(Mul(Mul(Mul(Num(2), model.nLayers), ExpectedKVHeads(model)), model.headDimension),
          getQuantizationInfo(model.quantization).bytesPerParameter),
      Pow10(9))

\* perTokenKV * (promptTokens + outputTokens) * batchSize
ExpectedCurrentKVGB(model) ==
  Mul(Mul(ExpectedPerTokenKVGB(model), Add(model.promptTokens, model.outputTokens)),
      model.batchSize)

\* parameters (billions) * bytesPerParameter
ExpectedModelSizeGB(model) ==
  Mul(model.parameters, getQuantizationInfo(model.quantization).bytesPerParameter)

\* C11: checkMemoryFit reports total memory = modelSize + 1 GB + activation +
\* current KV cache, with current KV cache = perTokenKV * (promptTokens +
\* outputTokens) * batchSize and perTokenKV = 2 * nLayers * kvHeads *
\* headDimension * bytesPerParameter (kvHeads = nKvHeads when present, else
\* nHeads); the same call with any other context length returns the same fields.
C11_TotalMemoryBreakdown ==
  (call = "checkMemoryFit" /\ ~ret.threw /\ MissingOrPresent(args.model)) =>
     /\ ret.value.modelSizeGB = ExpectedModelSizeGB(args.model)
     /\ ret.value.systemOverheadGB = Num(1)
     /\ ret.value.kvCachePerTokenGB = ExpectedPerTokenKVGB(args.model)
     /\ ret.value.currentKVCacheGB = ExpectedCurrentKVGB(args.model)
     /\ ret.value.totalMemoryUsedGB =
          Add(Add(Add(ExpectedModelSizeGB(args.model), Num(1)),
                  ret.value.activationMemoryGB),
              ExpectedCurrentKVGB(args.model))
     /\ \A n \in (0..MaxSeqLen) \cup {4096} :
          checkMemoryFit(args.gpu, [args.model EXCEPT !.sequenceLength = Num(n)]) = ret

\* grouped-query heads absent: the per-token KV size is computed from nHeads,
\* and the context length (4096) differs from the 500 tokens actually held
C11_Witness ==
  /\ call = "checkMemoryFit"
  /\ ~ret.threw
  /\ MissingOrPresent(args.model)
  /\ args.model.nKvHeads = Undefined
  /\ args.model.sequenceLength = Num(4096)
  /\ Add(args.model.promptTokens, args.model.outputTokens) = Num(500)
  /\ ret.value.kvCachePerTokenGB =
       Div(Mul(Mul(Mul(Mul(Num(2), args.model.nLayers), args.model.nHeads),
                   args.model.headDimension), Num(2)), Pow10(9))
  /\ ret.value.currentKVCacheGB = Mul(ret.value.kvCachePerTokenGB, Num(500))

\* the performance flag and message of the same call on a device with m GB, where
\* the memory warning differs (1 GB overflows, 80 GB fits)
PerformanceFlagAt(m) ==
  <<calculatePerformance([args.gpu EXCEPT !.memorySize = Num(m)], args.model,
                         args.systemOverhead).value.hasPerformanceWarning,
    calculatePerformance([args.gpu EXCEPT !.memorySize = Num(m)], args.model,
                         args.systemOverhead).value.performanceWarningMessage>>

\* C12: in every result of calculatePerformance hasPerformanceWarning is true
\* exactly when throughputTokensPerSecond < 5 (the throughput 0 of a zero total
\* time included), the message is present exactly when the flag is true, and the
\* flag does not depend on hasMemoryWarning.
C12_PerformanceWarning ==
  (call = "calculatePerformance" /\ ~ret.threw) =>
     /\ ret.value.hasPerformanceWarning <=>
          Lt(ret.value.throughputTokensPerSecond, Num(5))
     /\ ret.value.hasPerformanceWarning <=>
          (Len(ret.value.performanceWarningMessage) > 0)
     /\ IsZero(ret.value.totalGenerationTime) =>
          (ret.value.throughputTokensPerSecond = Zero /\ ret.value.hasPerformanceWarning)
     /\ \A m \in {1, 80} :
          PerformanceFlagAt(m) = <<ret.value.hasPerformanceWarning,
                                   ret.value.performanceWarningMessage>>

\* zero total time on a device the model fits: throughput 0 is flagged, and the
\* memory warning is not set
C12_Witness ==
  /\ call = "calculatePerformance"
  /\ ~ret.threw
  /\ IsZero(ret.value.totalGenerationTime)
  /\ ret.value.throughputTokensPerSecond = Zero
  /\ ret.value.hasPerformanceWarning
  /\ WarningKind(ret.value.performanceWarningMessage) = "Very low throughput ("
  /\ ~ret.value.hasMemoryWarning
  /\ calculatePerformance([args.gpu EXCEPT !.memorySize = Num(1)], args.model,
                          args.systemOverhead).value.hasMemoryWarning

\* the accelerator and model of the worked roofline example
IsWorkedExample ==
  /\ call = "calculatePerformance"
  /\ args.gpu = ExampleGPU
  /\ args.model = BaseModel

\* C13 as stated: the worked example gives modelSizeGB 14.0, opsToByteRatio about
\* 333.3 and an arithmeticIntensity of at least 100.
C13_ExampleIntensityInHundreds ==
  IsWorkedExample =>
     /\ ~ret.threw
     /\ ret.value.modelSizeGB = Num(14)
     /\ ToFixed1(ret.value.opsToByteRatio) = Rat(3333, 10)
     /\ Ge(ret.value.arithmeticIntensity, Num(100))

\* C13, amended: the worked example gives modelSizeGB 14.0, opsToByteRatio
\* 1000/3 (about 333.3) and arithmeticIntensity 2060/33 (about 62.4), which is
\* below the ratio, so the configuration is memory-bound.
C13_ExampleIntensity ==
  IsWorkedExample =>
     /\ ~ret.threw
     /\ ret.value.modelSizeGB = Num(14)
     /\ ret.value.opsToByteRatio = Rat(1000, 3)
     /\ ToFixed1(ret.value.opsToByteRatio) = Rat(3333, 10)
     /\ ret.value.arithmeticIntensity = Rat(2060, 33)
     /\ ToFixed1(ret.value.arithmeticIntensity) = Rat(624, 10)
     /\ ret.value.isMemoryBound
     /\ ~ret.value.isComputeBound

C13_Witness ==
  /\ IsWorkedExample
  /\ ~ret.threw
  /\ Lt(ret.value.arithmeticIntensity, Num(100))
  /\ ret.value.isMemoryBound

\* an 8 GB accelerator and a model whose weights are 14 GB
IsOverflowExample ==
  /\ call = "calculatePerformance"
  /\ ~ret.threw
  /\ args.gpu.memorySize = Num(8)
  /\ ret.value.modelSizeGB = Num(14)
  /\ MissingOrPresent(args.model)

\* the shortfall as printed in the overflow message
PrintedShortfall == ret.value.memoryWarningMessage[6]

\* C14 as stated: with 8 GB of memory and 14 GB of weights the result has
\* hasMemoryWarning with the overflow message, whose shortfall is about 6 GB.
C14_ShortfallAboutSix ==
  IsOverflowExample =>
     /\ ret.value.hasMemoryWarning
     /\ WarningKind(ret.value.memoryWarningMessage) = "Model requires "
     /\ Ge(PrintedShortfall, Rat(11, 2))
     /\ Le(PrintedShortfall, Rat(13, 2))

\* C14, amended: with 8 GB of memory and 14 GB of weights the result has
\* hasMemoryWarning with the overflow message; the shortfall printed is total
\* memory - 8 rounded to one decimal, which is at least 7 GB (weights + 1 GB
\* overhead + activation + KV cache), and 7.1 GB for a 7B FP16 model with 8 KV
\* heads holding 350 + 150 tokens at batch 1.
C14_ShortfallIncludesOverhead ==
  IsOverflowExample =>
     /\ ret.value.hasMemoryWarning
     /\ WarningKind(ret.value.memoryWarningMessage) = "Model requires "
     /\ PrintedShortfall = ToFixed1(Sub(ret.value.totalMemoryUsedGB, Num(8)))
     /\ Ge(PrintedShortfall, Num(7))
     /\ args.model = BaseModel => PrintedShortfall = Rat(71, 10)

C14_Witness ==
  /\ IsOverflowExample
  /\ args.model = BaseModel
  /\ ret.value.hasMemoryWarning
  /\ PrintedShortfall = Rat(71, 10)

\* the values held in a list
Range(list) == { list[i] : i \in DOMAIN list }

\* the position of a budget tier in minimal < small < medium < large < enterprise
BudgetTier(b) ==
  CASE b = "minimal" -> 1
    [] b = "small" -> 2
    [] b = "medium" -> 3
    [] b = "large" -> 4
    [] b = "enterprise" -> 5

\* every axis of eligibility except compliance
ExpectedOtherAxes(c, r) ==
  /\ Range(r.programmingLanguages) \cap c.supportedLanguages # {}
  /\ Range(r.useCase) \cap c.supportedUseCases # {}
  /\ Range(r.deploymentTarget) \cap c.deploymentTargets # {}
  /\ Range(r.dataTypes) \cap c.supportedDataTypes # {}
  /\ r.scalabilityNeeds \in c.scalabilitySupport
  /\ r.dataSize \in c.supportedDataSizes
  /\ r.securityLevel \in c.securityFeatures
  /\ BudgetTier(c.minBudgetRange) <= BudgetTier(r.budgetRange)

ExpectedEligible(c, r) ==
  /\ ExpectedOtherAxes(c, r)
  /\ Range(r.complianceRequirements) \subseteq c.complianceSupport

\* C15: filterComponentsByRequirements returns a catalog component iff it
\* overlaps the requirements on language, use case, deployment target and data
\* type, supports the required scalability, data size and security level, has
\* minBudgetRange <= budgetRange in minimal < small < medium < large <
\* enterprise, and supports every required compliance item; the components
\* returned keep their catalog order.
C15_EligibleIffAllAxes ==
  call = "filterComponentsByRequirements" =>
     /\ ~ret.threw
     /\ \A i \in DOMAIN args.catalog :
          (args.catalog[i] \in Range(ret.value))
            <=> ExpectedEligible(args.catalog[i], args.requirements)
     /\ \A i, j \in DOMAIN ret.value :
          i < j => indexOf(args.catalog, ret.value[i]) < indexOf(args.catalog, ret.value[j])

\* the default requirements over the catalog whose entries each fail one axis:
\* only the entries failing none are returned
C15_Witness ==
  /\ call = "filterComponentsByRequirements"
  /\ args.catalog = AxisCatalog
  /\ args.requirements = DEFAULT_PROJECT_REQUIREMENTS
  /\ Len(ret.value) = 2
  /\ ret.value[1].id = "all-axes"
  /\ ret.value[2].id = "both-compliances"

ComplianceRequirements == {"gdpr", "hipaa", "sox", "pci-dss", "iso-27001", "none"}

\* the requirements with one more compliance requirement
WithCompliance(r, item) ==
  [r EXCEPT !.complianceRequirements = Append(r.complianceRequirements, item)]

\* C16: requiring one more compliance item never makes a component eligible
\* that was not, and with no compliance requirement every component meeting the
\* other axes is eligible.
C16_ComplianceMonotonic ==
  call = "filterComponentsByRequirements" =>
     /\ \A item \in ComplianceRequirements :
          Range(filterComponentsByRequirements(args.catalog,
                                               WithCompliance(args.requirements, item)))
            \subseteq Range(ret.value)
     /\ args.requirements.complianceRequirements = << >> =>
          \A i \in DOMAIN args.catalog :
            ExpectedOtherAxes(args.catalog[i], args.requirements)
              => args.catalog[i] \in Range(ret.value)

\* gdpr alone leaves the gdpr-only entry eligible; adding hipaa removes it and
\* adds nothing
C16_Witness ==
  /\ call = "filterComponentsByRequirements"
  /\ args.catalog = AxisCatalog
  /\ args.requirements.complianceRequirements = <<"gdpr">>
  /\ \E i \in DOMAIN ret.value : ret.value[i].id = "all-axes"
  /\ \A c \in Range(filterComponentsByRequirements(
                      args.catalog, WithCompliance(args.requirements, "hipaa"))) :
       c.id # "all-axes" /\ c \in Range(ret.value)

\* every ComponentRecommendation of a result, recommended or alternative
AllRecommended(suggestion) ==
  UNION { Range(suggestion.recommendations[i].recommendedComponents)
            \cup Range(suggestion.recommendations[i].alternatives) :
          i \in DOMAIN suggestion.recommendations }

\* the share of the required items the component supports
MatchFraction(required, supported) ==
  Rat(Cardinality({ i \in DOMAIN required : required[i] \in supported }), Len(required))

\* the sum of the eight parts of the score
ExpectedParts(c, r) ==
  Add(Mul(MatchFraction(r.programmingLanguages, c.supportedLanguages), Num(20)),
  Add(Mul(MatchFraction(r.useCase, c.supportedUseCases), Num(25)),
  Add(getMaturityScore(c.maturityLevel),
  Add(getLearningCurveScore(c.learningCurve),
  Add(c.popularityScore,
  Add(getPerformanceScore(c, r),
  Add(getIntegrationScore(c.integrationComplexity),
      getBudgetScore(c.minBudgetRange, r.budgetRange))))))))

\* C17: every ComponentRecommendation of generateStackRecommendations has
\* a score that is a number within 0..100, equal to the sum of the language
\* (x20), use-case (x25), maturity, learning-curve, popularity, performance,
\* integration and budget parts capped at 100; the requirement lists the match
\* fractions divide by are not empty.
C17_ScoreWithinRange ==
  (call = "generateStackRecommendations" /\ ~ret.threw) =>
     \A rec \in AllRecommended(ret.value) :
        /\ IsFinite(rec.score)
        /\ Ge(rec.score, Zero)
        /\ Le(rec.score, Num(100))
        /\ Len(args.requirements.programmingLanguages) > 0
        /\ Len(args.requirements.useCase) > 0
        /\ rec.score = MathMin(Num(100), ExpectedParts(rec.component, args.requirements))

\* a component that reaches the full score next to recommendations below it
C17_Witness ==
  /\ call = "generateStackRecommendations"
  /\ ~ret.threw
  /\ \E rec \in AllRecommended(ret.value) : rec.score = Num(100)
  /\ \E rec \in AllRecommended(ret.value) : Lt(rec.score, Num(100))
  /\ Cardinality(AllRecommended(ret.value)) >= 4

\* the eligible components of a category
EligibleOf(category) ==
  { c \in Range(filterComponentsByRequirements(args.catalog, args.requirements)) :
      c.category = category }

\* the components named in a list of ComponentRecommendations
ComponentsOf(list) == { list[i].component : i \in DOMAIN list }

\* recommended followed by alternatives
Ranked(rec) == rec.recommendedComponents \o rec.alternatives

\* C18: in each category of a result the recommended components followed by the
\* alternatives are eligible components of the category in descending score
\* order, each with its own score: the first 3 are recommended, the next 3 are
\* alternatives, the rest (none scoring higher than a kept one) are dropped; the
\* two lists share no component.
C18_RankingPerCategory ==
  (call = "generateStackRecommendations" /\ ~ret.threw) =>
     \A k \in DOMAIN ret.value.recommendations :
        /\ Len(ret.value.recommendations[k].recommendedComponents)
             = MinInt(3, Cardinality(EligibleOf(ret.value.recommendations[k].category)))
        /\ Len(ret.value.recommendations[k].recommendedComponents) \in 1..3
        /\ Len(Ranked(ret.value.recommendations[k]))
             = MinInt(6, Cardinality(EligibleOf(ret.value.recommendations[k].category)))
        /\ Len(ret.value.recommendations[k].alternatives) \in 0..3
        /\ ComponentsOf(Ranked(ret.value.recommendations[k]))
             \subseteq EligibleOf(ret.value.recommendations[k].category)
        /\ Cardinality(ComponentsOf(Ranked(ret.value.recommendations[k])))
             = Len(Ranked(ret.value.recommendations[k]))
        /\ \A i, j \in DOMAIN Ranked(ret.value.recommendations[k]) :
             i < j => Ge(Ranked(ret.value.recommendations[k])[i].score,
                         Ranked(ret.value.recommendations[k])[j].score)
        /\ \A i \in DOMAIN Ranked(ret.value.recommendations[k]) :
             Ranked(ret.value.recommendations[k])[i]
               = scoreComponent(Ranked(ret.value.recommendations[k])[i].component,
                                args.requirements)
        /\ \A c \in EligibleOf(ret.value.recommendations[k].category)
                      \ ComponentsOf(Ranked(ret.value.recommendations[k])) :
             \A i \in DOMAIN Ranked(ret.value.recommendations[k]) :
               Ge(Ranked(ret.value.recommendations[k])[i].score,
                  scoreComponent(c, args.requirements).score)

\* seven eligible components in one category, the best of them not the first in
\* the catalog: three recommended, three alternatives, one dropped
C18_Witness ==
  /\ call = "generateStackRecommendations"
  /\ ~ret.threw
  /\ \E k \in DOMAIN ret.value.recommendations :
       /\ Cardinality(EligibleOf(ret.value.recommendations[k].category)) >= 7
       /\ Len(ret.value.recommendations[k].recommendedComponents) = 3
       /\ Len(ret.value.recommendations[k].alternatives) = 3
       /\ ret.value.recommendations[k].recommendedComponents[1].component.id = "pytorch"
       /\ Gt(ret.value.recommendations[k].recommendedComponents[3].score,
             ret.value.recommendations[k].alternatives[1].score)

\* the sum of the scores of a list of ComponentRecommendations
RECURSIVE SumOfScores(_)
SumOfScores(list) ==
  IF list = << >> THEN Zero
  ELSE Add(list[1].score, SumOfScores(Tail(list)))

\* the sum over the categories of the mean recommended score
RECURSIVE SumOfCategoryMeans(_)
SumOfCategoryMeans(recommendations) ==
  IF recommendations = << >> THEN Zero
  ELSE Add(Div(SumOfScores(recommendations[1].recommendedComponents),
               Num(Len(recommendations[1].recommendedComponents))),
           SumOfCategoryMeans(Tail(recommendations)))

\* the mean across the categories of the mean recommended score
MeanOfCategoryMeans(recommendations) ==
  Div(SumOfCategoryMeans(recommendations), Num(Len(recommendations)))

\* the categories of a result are those with an eligible component
CategoriesPresent ==
  /\ { ret.value.recommendations[k].category : k \in DOMAIN ret.value.recommendations }
       = { c.category :
             c \in Range(filterComponentsByRequirements(args.catalog, args.requirements)) }
  /\ \A k \in DOMAIN ret.value.recommendations :
       Len(ret.value.recommendations[k].recommendedComponents) > 0

\* C19 as stated: overallScore equals the mean across the categories present of
\* the mean score of the category's recommended components.
C19_OverallScoreIsMean ==
  (call = "generateStackRecommendations" /\ ~ret.threw
     /\ Len(ret.value.recommendations) > 0) =>
     /\ CategoriesPresent
     /\ ret.value.overallScore = MeanOfCategoryMeans(ret.value.recommendations)

\* C19, amended: overallScore is that mean rounded to the nearest integer
\* (halves upwards); no category without an eligible component is present, so
\* no mean divides by zero.
C19_OverallScoreIsRoundedMean ==
  (call = "generateStackRecommendations" /\ ~ret.threw
     /\ Len(ret.value.recommendations) > 0) =>
     /\ CategoriesPresent
     /\ IsFinite(ret.value.overallScore)
     /\ MathFloor(ret.value.overallScore) = ret.value.overallScore
     /\ Lt(Sub(MeanOfCategoryMeans(ret.value.recommendations), ret.value.overallScore),
           Rat(1, 2))
     /\ Le(Sub(ret.value.overallScore, MeanOfCategoryMeans(ret.value.recommendations)),
           Rat(1, 2))

\* several categories whose mean of means is not a whole number
C19_Witness ==
  /\ call = "generateStackRecommendations"
  /\ ~ret.threw
  /\ Len(ret.value.recommendations) >= 2
  /\ MathFloor(MeanOfCategoryMeans(ret.value.recommendations))
       # MeanOfCategoryMeans(ret.value.recommendations)
  /\ MathFloor(ret.value.overallScore) = ret.value.overallScore

ArchitecturePatterns == {"monolithic", "microservices", "serverless", "hybrid", "edge-cloud"}

\* no component of the catalog is eligible
NoneEligible ==
  filterComponentsByRequirements(args.catalog, args.requirements) = << >>

\* C20: when no component is eligible generateStackRecommendations returns
\* normally with no recommendations and overallScore 0, together with the
\* architecture, cost, timeline, risk and next-step outputs.
C20_EmptyResultWhenNoneEligible ==
  (call = "generateStackRecommendations" /\ NoneEligible) =>
     /\ ~ret.threw
     /\ ret.value.recommendations = << >>
     /\ ret.value.overallScore = Zero
     /\ ret.value.architecture \in ArchitecturePatterns
     /\ ret.value.estimatedCost.range = args.requirements.budgetRange
     /\ IsFinite(ret.value.estimatedCost.monthlyEstimate.min)
     /\ IsFinite(ret.value.estimatedCost.monthlyEstimate.max)
     /\ Len(ret.value.implementationTimeline.phases) = 5
     /\ Ge(ret.value.implementationTimeline.totalWeeks, Num(8))
     /\ ret.value.riskAssessment.overallRisk \in {"low", "medium", "high"}
     /\ Len(ret.value.nextSteps) >= 3

\* a catalog with entries and a requirement that names no programming language
C20_Witness ==
  /\ call = "generateStackRecommendations"
  /\ Len(args.catalog) > 0
  /\ args.requirements.programmingLanguages = << >>
  /\ ~ret.threw
  /\ ret.value.recommendations = << >>
  /\ ret.value.overallScore = Zero

\* the rules of the architecture pattern that the requirements match, in
\* priority order: 1 edge or mobile target, 2 cloud-native, 3 distributed or
\* large team, 4 enterprise, 5 the monolithic default
MatchedRules ==
  (IF "edge" \in Range(args.requirements.deploymentTarget)
      \/ "mobile" \in Range(args.requirements.deploymentTarget) THEN {1} ELSE {})
  \cup (IF args.requirements.scalabilityNeeds = "cloud-native" THEN {2} ELSE {})
  \cup (IF args.requirements.scalabilityNeeds = "distributed" THEN {3} ELSE {})
  \cup (IF args.requirements.teamSize = "large-team" THEN {3} ELSE {})
  \cup (IF args.requirements.projectType = "enterprise" THEN {4} ELSE {})
  \cup {5}

PatternOfRule ==
  <<"edge-cloud", "serverless", "microservices", "hybrid", "monolithic">>

\* C21: the architecture pattern of a result is the pattern of the earliest
\* rule the requirements match, in the order edge or mobile target,
\* cloud-native, distributed or large team, enterprise, and monolithic otherwise.
C21_FirstMatchingRuleWins ==
  call = "generateStackRecommendations" =>
     /\ ~ret.threw
     /\ \E first \in MatchedRules :
          /\ \A rule \in MatchedRules : first <= rule
          /\ ret.value.architecture = PatternOfRule[first]

\* requirements that match all four rules get the pattern of the first
C21_Witness ==
  /\ call = "generateStackRecommendations"
  /\ MatchedRules = {1, 2, 3, 4, 5}
  /\ args.requirements.teamSize = "large-team"
  /\ ret.value.architecture = "edge-cloud"

\* the budget part of the score of a recommended component
BudgetPart(rec) ==
  getBudgetScore(rec.component.minBudgetRange, args.requirements.budgetRange)

\* C27: every component in a recommendation of generateStackRecommendations
\* has a budget part of 5 in its score, and none carries the concern 'May
\* exceed budget constraints': the filter has removed every component whose
\* minimum budget is above the project's.
C27_BudgetPartAlwaysFive ==
  call = "generateStackRecommendations" =>
     \A rec \in AllRecommended(ret.value) :
        /\ BudgetPart(rec) = Num(5)
        /\ rec.score = MathMin(Num(100),
                         Add(Sub(ExpectedParts(rec.component, args.requirements),
                                 BudgetPart(rec)), Num(5)))
        /\ <<"May exceed budget constraints">> \notin Range(rec.concerns)

\* a catalog with a component one tier above the budget and one two tiers or
\* more above it, neither recommended, and a recommended component whose
\* minimum budget is the project's
C27_Witness ==
  /\ call = "generateStackRecommendations"
  /\ \E i \in DOMAIN args.catalog :
       getBudgetScore(args.catalog[i].minBudgetRange, args.requirements.budgetRange)
         = Num(3)
  /\ \E rec \in AllRecommended(ret.value) :
       /\ rec.component.minBudgetRange = args.requirements.budgetRange
       /\ BudgetPart(rec) = Num(5)
  /\ \A rec \in AllRecommended(ret.value) :
       indexOf(budgetOrder, rec.component.minBudgetRange)
         <= indexOf(budgetOrder, args.requirements.budgetRange)

\* C22: the system-efficiency percentage the calculation effect hands to the
\* engine is always within 1..200, whatever the slider moves and typed values
\* before it.
C22_EfficiencyWithinRange ==
  (selectedGPU # Null /\ modelSpecs # Null) =>
     /\ Ge(Mul(systemEfficiencyOf(systemOverhead), Num(100)), Num(1))
     /\ Le(Mul(systemEfficiencyOf(systemOverhead), Num(100)), Num(200))

\* C23: the search is debounced: a timer that fires calls handleSearch with
\* the text typed last, and a change while a timer is pending cancels that
\* timer, so at most one timer is pending.
C23_OnlyLastTextSearched ==
  [][/\ Len(timeouts') <= 1
     /\ handleSearch => Head(timeouts) = searchQuery]_vars

\* the search is quiescent: no timer pending and no searchModels call awaited
SearchQuiescent == timeouts = << >> /\ requests = << >>

\* C26: once every outstanding search has completed without an error,
\* searchResults are those of the query typed last (none when it is blank);
\* and isSearching is false only when no searchModels call is awaited.
C26_ResultsOfLatestQuery ==
  /\ (SearchQuiescent /\ searchError = "") =>
       searchResults = IF trim(searchQuery) = "" THEN << >> ELSE modelsOf(searchQuery)
  /\ ~isSearching => requests = << >>

\* C25: whenever AIStackFinder shows suggestions (suggestions set and
\* isGenerating false) they are the recommendations generated from the current
\* requirements, also when the requirements changed during the 1500 ms delay.
C25_SuggestionsFromCurrentRequirements ==
  (suggestions # Null /\ ~isGenerating) =>
     suggestions = generateStackRecommendations(AxisCatalog, finderRequirements).value

\* the memory figures of the same GPU and model evaluated at batch size m
AtBatchSize(m) ==
  calculatePerformance(args.gpu, [args.model EXCEPT !.batchSize = m], args.systemOverhead)

\* C28: the maxBatchSize that calculatePerformance reports is achievable: when
\* it is at least 1, the same GPU and model at that batch size need no more
\* memory than the GPU has; and whenever the inputs need no more memory than
\* the GPU has, maxBatchSize is at least their batchSize.
C28_MaxBatchSizeAchievable ==
  (call = "calculatePerformance" /\ ~ret.threw /\ IsFinite(ret.value.totalMemoryUsedGB)) =>
     /\ Ge(ret.value.maxBatchSize, Num(1)) =>
          /\ ~AtBatchSize(ret.value.maxBatchSize).threw
          /\ Le(AtBatchSize(ret.value.maxBatchSize).value.totalMemoryUsedGB,
                args.gpu.memorySize)
     /\ Le(ret.value.totalMemoryUsedGB, args.gpu.memorySize) =>
          Ge(ret.value.maxBatchSize, args.model.batchSize)

\* the range fields the effect initialises, with their initial values
InitialRanges ==
  [itlRange |-> <<Num(0), Num(1000)>>, budgetRange |-> <<Num(0), Num(5000)>>,
   alpacaEvalRange |-> <<Num(0), Num(100)>>,
   contextLengthRange |-> <<Num(0), Num(200000)>>]

\* the range of the data for a range field, after the step
DataRangeAfter(field) ==
  << dataRange(RangeFields[field], availableGPUs', filters'.inputTokenCount).min,
     dataRange(RangeFields[field], availableGPUs', filters'.inputTokenCount).max >>

SpecsAtTokenCount(j) ==
  [f \in DOMAIN MODELS[j].specs \cup {"promptTokens"} |->
     IF f = "promptTokens" THEN filters.inputTokenCount ELSE MODELS[j].specs[f]]

C30_LoadSucceedsWhenConfigFetched ==
  (call = "loadModelFromHub" /\ args.responses.config # Null)
    => /\ ~ret.threw
       /\ IsFinite(ret.value.parameters)
       /\ Gt(ret.value.parameters, Zero)

====
